---- MODULE Spec2Model ----
(***************************************************************************)
(* Model of the wiki front end: ContentService (the cache over the GitHub  *)
(* contents API, assets/js/editor.js) and SearchService (the in-browser    *)
(* full-text index, assets/js/search.js).                                  *)
(*                                                                         *)
(* Strings are sequences of one-character strings, so that the string      *)
(* functions of the code (normalizePath, parseFrontMatter, tokenize, the   *)
(* occurrence counts) are computed character by character.                 *)
(***************************************************************************)
EXTENDS Integers, Sequences, FiniteSets, TLC

VARIABLES
  cache,        \* ContentService.cache: normalized path -> [content, timestamp]
  now,          \* Date.now()
  remote,       \* the GitHub repository: path -> content of the file, or null
  token,        \* AuthService.token
  config,       \* wikiApp.config
  calls,        \* the async ContentService calls: position and local variables
  searchIndex,  \* SearchService.searchIndex: null, or token -> list of documents
  isIndexing,   \* SearchService.isIndexing
  indexedFiles, \* SearchService.indexedFiles
  crawl,        \* the running initSearchIndex: stack of indexDirectory frames
  crawlLog,     \* the remote calls of the crawl and how each ended
  searches,     \* performSearch calls: position, query and returned value
  pure,         \* the application of a pure function: its input and results
  proxy,        \* the invocations of the token-exchange handler
  browser       \* the page in the browser: the editor or the app, its storage

vars == <<cache, now, remote, token, config, calls,
          searchIndex, isIndexing, indexedFiles, crawl, crawlLog, searches,
          pure, proxy, browser>>

contentVars == <<cache, now, remote, token, config, calls>>
searchVars == <<searchIndex, isIndexing, indexedFiles, crawl, crawlLog, searches>>
auxVars == <<pure, proxy, browser>>

(***************************************************************************)
(* Bounds                                                                  *)
(***************************************************************************)
MaxReads == 2      \* getFile calls in flight at a time in a reading session
MaxSaves == 2      \* saveFile calls in flight at a time in an editing session
MaxDrift == 1      \* milliseconds past the TTL the clock jumps to

(***************************************************************************)
(* JavaScript values: a string or null                                     *)
(***************************************************************************)
Str(s) == [type |-> "string", s |-> s]
Null == [type |-> "null"]
\* JavaScript truthiness of a string-or-null value: null and '' are falsy
Truthy(v) == v.type = "string" /\ v.s # <<>>

(***************************************************************************)
(* ContentService (assets/js/editor.js)                                    *)
(***************************************************************************)
cacheTTL == 5 * 60 * 1000

RECURSIVE StripLeadingSlashes(_)
StripLeadingSlashes(s) ==
  IF s # <<>> /\ Head(s) = "/" THEN StripLeadingSlashes(Tail(s)) ELSE s

RECURSIVE StripTrailingSlashes(_)
StripTrailingSlashes(s) ==
  IF s # <<>> /\ s[Len(s)] = "/"
    THEN StripTrailingSlashes(SubSeq(s, 1, Len(s) - 1))
    ELSE s

Includes(s, ch) == \E i \in 1..Len(s) : s[i] = ch
EndsWithChar(s, ch) == s # <<>> /\ s[Len(s)] = ch

\* a mutant of normalizePath: the extension is appended to every path
normalizePathAppendsAlways(path) ==
  LET p == StripTrailingSlashes(StripLeadingSlashes(path))
  IN IF p # <<>> THEN p \o <<".", "m", "d">> ELSE p

\* normalizePath: strip leading and trailing slashes, append .md when the
\* path is not empty, does not end in a slash and contains no dot
normalizePath(path) ==
  LET p == StripTrailingSlashes(StripLeadingSlashes(path))
  IN IF p # <<>> /\ ~EndsWithChar(p, "/") /\ ~Includes(p, ".")
       THEN p \o <<".", "m", "d">>
       ELSE p

\* a mutant of isExpired: the age of the entry is not looked at
isExpiredNever(t, timestamp) == FALSE

\* getFromCache, the expiry test
isExpired(t, timestamp) == t - timestamp > cacheTTL

\* a mutant of getFromCache: a path without entry is served an empty page
getFromCacheAlwaysHit(c, t, path) ==
  IF path \notin DOMAIN c THEN Str(<<" ">>) ELSE Str(c[path].content)

\* getFromCache, the value returned
getFromCache(c, t, path) ==
  IF path \notin DOMAIN c THEN Null
  ELSE IF isExpired(t, c[path].timestamp) THEN Null
  ELSE Str(c[path].content)

\* getFromCache, the cache it leaves: an expired entry is deleted
cacheAfterGet(c, t, path) ==
  IF path \in DOMAIN c /\ isExpired(t, c[path].timestamp)
    THEN [q \in DOMAIN c \ {path} |-> c[q]]
    ELSE c

\* a mutant of addToCache: an entry that exists is kept
addToCacheIfAbsent(c, t, path, content) ==
  [q \in DOMAIN c \cup {path} |->
     IF q \in DOMAIN c THEN c[q] ELSE [content |-> content, timestamp |-> t]]

\* addToCache
addToCache(c, t, path, content) ==
  [q \in DOMAIN c \cup {path} |->
     IF q = path THEN [content |-> content, timestamp |-> t] ELSE c[q]]

\* the configuration the constructor of App sets
DefaultConfig ==
  [title |-> "GitHub Wiki",
   description |-> "A static wiki engine based on GitHub Pages",
   contentRepo |-> "",
   defaultBranch |-> "main"]

\* the name of a content repository
RepoName == "owner/wiki"

\* getApiUrl throws when config.contentRepo is not set
getApiUrlThrows(cfg) == cfg.contentRepo = ""

\* the identity (blob sha) GitHub reports for a stored content
Sha(content) == [type |-> "sha", of |-> content]

\* btoa on the content of the request body
btoa(content) == [base64 |-> content]

\* saveFile's requestBody: the sha field is present only when sha is truthy
requestBody(content, sha) ==
  IF sha.type = "sha"
    THEN [message |-> "Update file", content |-> btoa(content),
          branch |-> "main", sha |-> sha]
    ELSE [message |-> "Update file", content |-> btoa(content),
          branch |-> "main"]

\* the errors the ContentService raises
NoError == [message |-> "none"]
NotAuthenticated == [message |-> "User is not authenticated"]
NotConfigured == [message |-> "Content repository is not configured"]
ApiError(status) == [message |-> "GitHub API error", status |-> status]

(***************************************************************************)
(* The inputs of the ContentService calls                                  *)
(***************************************************************************)
PathA == <<"a">>
PathSlashB == <<"/", "b", ".", "m", "d">>
PathInputs == {PathA, PathSlashB}
StorePaths == {normalizePath(p) : p \in PathInputs}

\* the page of an editing session
SaveInputs == {PathA}
SavePaths == {normalizePath(p) : p \in SaveInputs}

Contents == {<<>>, <<"x">>}

\* how a request ends: the store answers it, or it fails (a server error or a
\* rejected fetch, which every caller handles alike)
Outcomes == {"ok", "fail"}

\* the slots of the calls in flight
CallIds == DOMAIN calls
NoRequest == [method |-> "none"]
IdleCall == [op |-> "none", pc |-> "idle", path |-> <<>>, content |-> <<>>,
             sha |-> Null, request |-> NoRequest, result |-> Null,
             error |-> NoError]
EmptyMap == [q \in {} |-> Null]

\* no pure function is being applied
NoPure == [fn |-> "none"]

\* no page is open in the browser
NoBrowser == [page |-> "none"]

\* no initSearchIndex is running: no indexDirectory frame, no request in flight
NoCrawl == [stack |-> <<>>, pending |-> NoRequest]

\* a call has settled when it returned or raised
Settled(rec) == rec.pc \in {"returned", "raised"}

\* a new call takes the first slot that holds no call in flight
NextCall(c) ==
  /\ calls[c].pc = "idle" \/ Settled(calls[c])
  /\ \A b \in CallIds : b < c => ~(calls[b].pc = "idle" \/ Settled(calls[b]))

\* the calls after call c moved to rec; the outcome of a settled call is kept
\* until the next call settles
Step(c, rec) ==
  [b \in CallIds |->
     IF b = c THEN rec
     ELSE IF Settled(rec) /\ Settled(calls[b]) THEN IdleCall
     ELSE calls[b]]

\* the status of the response to a GET of path; 500 stands for every failure
getStatus(r, path, outcome) ==
  IF outcome = "fail" THEN 500
  ELSE IF r[path] = Null THEN 404
  ELSE 200

(***************************************************************************)
(* getFile                                                                 *)
(***************************************************************************)
\* getFile up to its first await: normalizePath, the cache lookup, getApiUrl
\* and the GET request
GetFileCall(c, p) ==
  /\ NextCall(c)
  /\ LET path == normalizePath(p)
         cachedContent == getFromCache(cache, now, path)
     IN /\ cache' = cacheAfterGet(cache, now, path)
        /\ calls' = Step(c,
             IF Truthy(cachedContent)
               THEN [IdleCall EXCEPT !.op = "getFile", !.pc = "returned",
                       !.path = path, !.result = cachedContent]
             ELSE IF getApiUrlThrows(config)
               THEN [IdleCall EXCEPT !.op = "getFile", !.pc = "raised",
                       !.path = path, !.error = NotConfigured]
             ELSE [IdleCall EXCEPT !.op = "getFile", !.pc = "fetch",
                       !.path = path,
                       !.request = [method |-> "GET", url |-> path,
                                    accept |-> "raw"]])
  /\ UNCHANGED <<now, remote, token, config>>

\* a mutant of getFileOnStatus: a 404 is raised like any other failure
getFileOnStatusNo404(status) ==
  IF status # 200 THEN "throw" ELSE "content"

\* getFile, what it does with the response: 404 gives null, another status
\* that is not ok is thrown, an ok response is read
getFileOnStatus(status) ==
  IF status # 200
    THEN (IF status = 404 THEN "null" ELSE "throw")
    ELSE "content"

\* getFile from the answer of the GET on: 404 gives null, another failure is
\* rethrown, a success is cached and returned
GetFileResponse(c, outcome) ==
  /\ calls[c].pc = "fetch"
  /\ LET path == calls[c].path
         status == getStatus(remote, path, outcome)
         todo == getFileOnStatus(status)
     IN IF todo = "throw"
          THEN /\ calls' = Step(c, [calls[c] EXCEPT !.pc = "raised",
                                         !.request = NoRequest,
                                         !.error = ApiError(status)])
               /\ cache' = cache
        ELSE IF todo = "null"
          THEN /\ calls' = Step(c, [calls[c] EXCEPT !.pc = "returned",
                                         !.request = NoRequest,
                                         !.result = Null])
               /\ cache' = cache
        ELSE /\ calls' = Step(c, [calls[c] EXCEPT !.pc = "returned",
                                       !.request = NoRequest,
                                       !.result = remote[path]])
             /\ cache' = addToCache(cache, now, path, remote[path].s)
  /\ UNCHANGED <<now, remote, token, config>>

(***************************************************************************)
(* saveFile                                                                *)
(***************************************************************************)
\* a mutant of tokenMissing: the token is not checked
tokenMissingNever(t) == FALSE

\* saveFile's check of the token: if (!token)
tokenMissing(t) == ~Truthy(t)

\* saveFile up to its first await: normalizePath, the token check, getApiUrl
\* and the GET that reads the sha
SaveFileCall(c, p, content) ==
  /\ NextCall(c)
  /\ LET path == normalizePath(p)
     IN calls' = Step(c,
          IF tokenMissing(token)
            THEN [IdleCall EXCEPT !.op = "saveFile", !.pc = "raised",
                    !.path = path, !.content = content,
                    !.error = NotAuthenticated]
          ELSE IF getApiUrlThrows(config)
            THEN [IdleCall EXCEPT !.op = "saveFile", !.pc = "raised",
                    !.path = path, !.content = content,
                    !.error = NotConfigured]
          ELSE [IdleCall EXCEPT !.op = "saveFile", !.pc = "readSha",
                    !.path = path, !.content = content,
                    !.request = [method |-> "GET", url |-> path,
                                 accept |-> "json"]])
  /\ UNCHANGED <<cache, now, remote, token, config>>

\* a mutant of shaOfResponse: the sha is that of the content the page had
\* when it was first stored, not the one this call reads
shaOfResponseStale(status, r, path) ==
  IF status = 200 THEN Sha(<<"x">>) ELSE Null

\* saveFile's sha: set from the response only when the read answered ok; a
\* response that is not ok or a rejected read leaves it null
shaOfResponse(status, r, path) ==
  IF status = 200 THEN Sha(r[path].s) ELSE Null

\* saveFile from the answer of the sha read to the PUT
SaveFileShaResponse(c, outcome) ==
  /\ calls[c].pc = "readSha"
  /\ LET path == calls[c].path
         sha == shaOfResponse(getStatus(remote, path, outcome), remote, path)
     IN calls' = Step(c, [calls[c] EXCEPT !.pc = "put",
                               !.sha = sha,
                               !.request =
                                  [method |-> "PUT", url |-> path,
                                   body |-> requestBody(calls[c].content, sha)]])
  /\ UNCHANGED <<cache, now, remote, token, config>>

\* the contents API accepts a PUT that creates a missing file without sha, or
\* updates an existing file with the sha of its current content
RemoteAccepts(r, path, body) ==
  IF r[path] = Null
    THEN "sha" \notin DOMAIN body
    ELSE "sha" \in DOMAIN body /\ body.sha = Sha(r[path].s)

\* the status of the response to a PUT
putStatus(r, path, body, outcome) ==
  IF outcome = "fail" THEN 500
  ELSE IF RemoteAccepts(r, path, body) THEN 200
  ELSE 409

\* saveFile from the answer of the PUT on: a response that is not ok or a
\* rejected request is raised, a success refreshes the cache entry
SaveFilePutResponse(c, outcome) ==
  /\ calls[c].pc = "put"
  /\ LET path == calls[c].path
         body == calls[c].request.body
         status == putStatus(remote, path, body, outcome)
     IN IF status = 200
          THEN /\ remote' = [remote EXCEPT ![path] = Str(body.content.base64)]
               /\ cache' = addToCache(cache, now, path, calls[c].content)
               /\ calls' = Step(c, [calls[c] EXCEPT !.pc = "returned",
                                         !.sha = Null,
                                         !.request = NoRequest])
          ELSE /\ calls' = Step(c, [calls[c] EXCEPT !.pc = "raised",
                                         !.sha = Null,
                                         !.request = NoRequest,
                                         !.error = ApiError(status)])
               /\ UNCHANGED <<cache, remote>>
  /\ UNCHANGED <<now, token, config>>

(***************************************************************************)
(* The environment of the ContentService                                   *)
(***************************************************************************)
\* Date.now() moves on, to the TTL or to some milliseconds past it
Tick(d) ==
  /\ d \in cacheTTL..(cacheTTL + MaxDrift)
  /\ now + d <= cacheTTL + MaxDrift
  /\ now' = now + d
  /\ UNCHANGED <<cache, remote, token, config, calls>>

\* another writer changes or removes a file of the repository
RemoteEdit(path, v) ==
  /\ remote[path] # v
  /\ remote' = [remote EXCEPT ![path] = v]
  /\ UNCHANGED <<cache, now, token, config, calls>>

\* AuthService: checkAuthStatus sets the token, logout clears it
SetToken(t) ==
  /\ token # t
  /\ token' = t
  /\ UNCHANGED <<cache, now, remote, config, calls>>

\* the settings page assigns config.contentRepo
SetContentRepo ==
  /\ getApiUrlThrows(config)
  /\ config' = [config EXCEPT !.contentRepo = RepoName]
  /\ UNCHANGED <<cache, now, remote, token, calls>>

Token == Str(<<"t">>)

Init ==
  /\ cache = EmptyMap
  /\ now = 0
  /\ remote \in [StorePaths -> {Null} \cup {Str(s) : s \in Contents}]
  /\ token = Null
  /\ config = DefaultConfig
  /\ calls = [c \in 1..MaxReads |-> IdleCall]
  /\ searchIndex = Null
  /\ isIndexing = FALSE
  /\ indexedFiles = {}
  /\ crawl = NoCrawl
  /\ crawlLog = <<>>
  /\ searches = <<>>
  /\ pure = NoPure
  /\ proxy = <<>>
  /\ browser = NoBrowser

\* the actions of the environment of both sessions
Environment ==
  \/ \E d \in cacheTTL..(cacheTTL + MaxDrift) : Tick(d) /\ UNCHANGED <<searchVars, auxVars>>
  \/ \E p \in DOMAIN remote, v \in {Null} \cup {Str(s) : s \in Contents} :
       RemoteEdit(p, v) /\ UNCHANGED <<searchVars, auxVars>>
  \/ SetContentRepo /\ UNCHANGED <<searchVars, auxVars>>

\* a reading session: pages are fetched through the cache
Next ==
  \/ \E c \in CallIds, p \in PathInputs : GetFileCall(c, p) /\ UNCHANGED <<searchVars, auxVars>>
  \/ \E c \in CallIds, o \in Outcomes : GetFileResponse(c, o) /\ UNCHANGED <<searchVars, auxVars>>
  \/ Environment

Spec == Init /\ [][Next]_vars

\* an editing session: pages are saved, by a user who logs in and out
InitSave ==
  /\ cache = EmptyMap
  /\ now = 0
  /\ remote \in [SavePaths -> {Null} \cup {Str(s) : s \in Contents}]
  /\ token = Null
  /\ config = DefaultConfig
  /\ calls = [c \in 1..MaxSaves |-> IdleCall]
  /\ searchIndex = Null
  /\ isIndexing = FALSE
  /\ indexedFiles = {}
  /\ crawl = NoCrawl
  /\ crawlLog = <<>>
  /\ searches = <<>>
  /\ pure = NoPure
  /\ proxy = <<>>
  /\ browser = NoBrowser

NextSave ==
  \/ \E c \in CallIds, p \in SaveInputs, s \in Contents :
       SaveFileCall(c, p, s) /\ UNCHANGED <<searchVars, auxVars>>
  \/ \E c \in CallIds, o \in Outcomes : SaveFileShaResponse(c, o) /\ UNCHANGED <<searchVars, auxVars>>
  \/ \E c \in CallIds, o \in Outcomes : SaveFilePutResponse(c, o) /\ UNCHANGED <<searchVars, auxVars>>
  \/ \E t \in {Null, Token} : SetToken(t) /\ UNCHANGED <<searchVars, auxVars>>
  \/ Environment

SpecSave == InitSave /\ [][NextSave]_vars

(***************************************************************************)
(* Properties of the ContentService                                        *)
(***************************************************************************)
\* call c starts in this step as the operation op
Starts(c, op) ==
  /\ calls[c].pc = "idle" \/ Settled(calls[c])
  /\ calls'[c] # calls[c]
  /\ calls'[c].op = op

\* the age of the cache entry of path
Age(path) == now - cache[path].timestamp

\* C1: cache freshness. A getFile for a path whose content an earlier getFile
\* fetched and cached less than the TTL ago, the stored content being
\* unchanged, is answered from the cache without a request.
C1_CacheFreshness ==
  [][\A c \in CallIds :
       Starts(c, "getFile") =>
         LET path == calls'[c].path
         IN (/\ path \in DOMAIN cache
             /\ Age(path) < cacheTTL
             /\ remote[path] = Str(cache[path].content)
             /\ \E b \in CallIds : /\ calls[b].op = "getFile"
                                   /\ calls[b].pc = "returned"
                                   /\ calls[b].path = path
                                   /\ calls[b].result = remote[path])
            => /\ calls'[c].pc = "returned"
               /\ calls'[c].result = Str(cache[path].content)
               /\ calls'[c].request = NoRequest]_vars

\* an entry leaves the cache only in a step that starts a getFile of its path,
\* and only when it has expired
RemovedOnlyByRead(expired(_)) ==
  \A q \in DOMAIN cache :
    q \notin DOMAIN cache' =>
      /\ expired(q)
      /\ \E c \in CallIds : Starts(c, "getFile") /\ calls'[c].path = q

\* C2 as stated: an entry is served only while now - fetchedAt < TTL, a getFile
\* issued once that no longer holds fetches again, and an expired entry is
\* removed only by the next read of its path.
C2_CacheTTLStrict ==
  [][/\ \A c \in CallIds :
          Starts(c, "getFile") =>
            LET path == calls'[c].path
            IN path \in DOMAIN cache =>
                 /\ calls'[c].pc = "returned" => Age(path) < cacheTTL
                 /\ ~(Age(path) < cacheTTL) => calls'[c].pc = "fetch"
     /\ RemovedOnlyByRead(LAMBDA q : ~(Age(q) < cacheTTL))]_vars

\* C2 amended: an entry is served only while now - fetchedAt <= TTL, a getFile
\* issued when now - fetchedAt > TTL fetches again and removes the entry, and
\* an entry is removed only so, by a read of its own path.
C2_CacheTTL ==
  [][/\ \A c \in CallIds :
          Starts(c, "getFile") =>
            LET path == calls'[c].path
            IN path \in DOMAIN cache =>
                 /\ calls'[c].pc = "returned" =>
                      /\ Age(path) <= cacheTTL
                      /\ calls'[c].result = Str(cache[path].content)
                 /\ Age(path) > cacheTTL =>
                      /\ calls'[c].pc = "fetch"
                      /\ path \notin DOMAIN cache'
     /\ RemovedOnlyByRead(LAMBDA q : Age(q) > cacheTTL)]_vars

\* a getFile was answered from an entry whose age is exactly the TTL (a fetch
\* would have left an entry of age 0)
C2_Witness ==
  \E c \in CallIds :
    /\ calls[c].op = "getFile"
    /\ calls[c].pc = "returned"
    /\ calls[c].path \in DOMAIN cache
    /\ Age(calls[c].path) = cacheTTL
    /\ calls[c].result = Str(cache[calls[c].path].content)

\* C7: saveFile without a token raises the authentication error at once: no
\* request is sent and the cache and the store are unchanged.
C7_SaveNeedsToken ==
  [][\A c \in CallIds :
       (Starts(c, "saveFile") /\ ~Truthy(token)) =>
          /\ calls'[c].pc = "raised"
          /\ calls'[c].error = NotAuthenticated
          /\ calls'[c].request = NoRequest
          /\ cache' = cache
          /\ remote' = remote]_vars

\* a saveFile was refused for lack of a token
C7_Witness ==
  \E c \in CallIds :
    /\ calls[c].op = "saveFile"
    /\ calls[c].pc = "raised"
    /\ calls[c].error = NotAuthenticated
    /\ ~getApiUrlThrows(config)

\* C8: the PUT of saveFile carries the sha of the stored object when the
\* object exists, and omits the sha field only when the object does not exist.
C8_ShaOmittedOnlyOnCreate ==
  [][\A c \in CallIds :
       (calls[c].pc = "readSha" /\ calls'[c].pc = "put") =>
          LET path == calls[c].path
              body == calls'[c].request.body
          IN /\ remote[path] # Null =>
                  "sha" \in DOMAIN body /\ body.sha = Sha(remote[path].s)
             /\ "sha" \notin DOMAIN body => remote[path] = Null]_vars

\* C9: a saveFile that returns leaves, for its normalized path, the cache entry
\* (content saved, time of completion); a saveFile that raises leaves the
\* cache, and the store, as they were.
C9_SaveRefreshesCache ==
  [][\A c \in CallIds :
       (calls'[c].op = "saveFile" /\ calls'[c] # calls[c]) =>
          /\ calls'[c].pc = "returned" =>
               /\ calls'[c].path \in DOMAIN cache'
               /\ cache'[calls'[c].path] =
                    [content |-> calls'[c].content, timestamp |-> now']
               /\ \A q \in DOMAIN cache' \ {calls'[c].path} :
                    q \in DOMAIN cache /\ cache'[q] = cache[q]
          /\ calls'[c].pc = "raised" => cache' = cache /\ remote' = remote]_vars

\* a saveFile returned, over an entry cached earlier for the same path
C9_Witness ==
  \E c \in CallIds :
    /\ calls[c].op = "saveFile"
    /\ calls[c].pc = "returned"
    /\ now > 0
    /\ cache[calls[c].path] = [content |-> calls[c].content, timestamp |-> now]
    /\ calls[c].path = normalizePath(PathA)

\* C10: a getFile whose GET is answered 404 returns null and does not raise; a
\* GET that fails otherwise raises; neither touches the cache.
C10_NotFoundIsNotAnError ==
  [][\A c \in CallIds :
       (calls[c].pc = "fetch" /\ calls'[c].pc # "fetch") =>
          LET path == calls[c].path
          IN /\ calls'[c].pc = "raised" =>
                  /\ calls'[c].error.message = "GitHub API error"
                  /\ calls'[c].error.status # 404
                  /\ cache' = cache
             /\ (calls'[c].pc = "returned" /\ remote[path] = Null) =>
                  /\ calls'[c].result = Null
                  /\ cache' = cache
             /\ (calls'[c].pc = "returned" /\ calls'[c].result = Null) =>
                  remote[path] = Null]_vars

\* a getFile of a missing file returned null and left no cache entry
C10_Witness ==
  \E c \in CallIds :
    /\ calls[c].op = "getFile"
    /\ calls[c].pc = "returned"
    /\ calls[c].result = Null
    /\ remote[calls[c].path] = Null
    /\ calls[c].path \notin DOMAIN cache

\* C20: a getFile that finds no entry of its path, or an expired one, sends
\* its own GET, also while another getFile of the same path awaits its
\* response, and leaves that call as it is; and every getFile that returns
\* the content it read leaves the entry (that content, the time of its
\* completion) for the path, over the entry an earlier read wrote: of two
\* reads, the entry is the one of the read that completed last.
C20_ConcurrentGetsNotDeduplicated ==
  [][\A c \in CallIds :
       /\ ( /\ Starts(c, "getFile")
            /\ ~getApiUrlThrows(config)
            /\ \/ calls'[c].path \notin DOMAIN cache
               \/ Age(calls'[c].path) > cacheTTL )
          => /\ calls'[c].pc = "fetch"
             /\ calls'[c].request.method = "GET"
             /\ calls'[c].request.url = calls'[c].path
             /\ \A b \in CallIds \ {c} :
                  calls[b].pc = "fetch" => calls'[b] = calls[b]
       /\ ( /\ calls[c].op = "getFile"
            /\ calls[c].pc = "fetch"
            /\ calls'[c].pc = "returned"
            /\ calls'[c].result # Null )
          => /\ calls[c].path \in DOMAIN cache'
             /\ cache'[calls[c].path] =
                  [content |-> calls'[c].result.s, timestamp |-> now]]_vars

\* of two getFile calls of one path that were both awaiting their responses,
\* one has returned and left its entry, and the other is still awaiting
C20_Witness ==
  \E b, c \in CallIds :
    /\ b # c
    /\ calls[b].op = "getFile"
    /\ calls[b].pc = "returned"
    /\ calls[b].result = Str(<<"x">>)
    /\ calls[c].op = "getFile"
    /\ calls[c].pc = "fetch"
    /\ calls[c].path = calls[b].path
    /\ calls[c].path \in DOMAIN cache
    /\ cache[calls[c].path] = [content |-> <<"x">>, timestamp |-> now]
    /\ now > 0

(***************************************************************************)
(* Strings                                                                 *)
(***************************************************************************)
LowerAlpha ==
  <<"a", "b", "c", "d", "e", "f", "g", "h", "i", "j", "k", "l", "m", "n",
    "o", "p", "q", "r", "s", "t", "u", "v", "w", "x", "y", "z">>
UpperAlpha ==
  <<"A", "B", "C", "D", "E", "F", "G", "H", "I", "J", "K", "L", "M", "N",
    "O", "P", "Q", "R", "S", "T", "U", "V", "W", "X", "Y", "Z">>
Digits == <<"0", "1", "2", "3", "4", "5", "6", "7", "8", "9">>

Range(f) == {f[i] : i \in DOMAIN f}

\* String.prototype.toLowerCase and toUpperCase, on one character
LowerChar(ch) ==
  IF ch \in Range(UpperAlpha)
    THEN LowerAlpha[CHOOSE i \in 1..26 : UpperAlpha[i] = ch]
    ELSE ch
UpperChar(ch) ==
  IF ch \in Range(LowerAlpha)
    THEN UpperAlpha[CHOOSE i \in 1..26 : LowerAlpha[i] = ch]
    ELSE ch
toLowerCase(s) == [i \in 1..Len(s) |-> LowerChar(s[i])]

\* the character classes \w and \s of the regular expressions
IsWordChar(ch) ==
  ch \in Range(LowerAlpha) \cup Range(UpperAlpha) \cup Range(Digits) \cup {"_"}
IsSpace(ch) == ch \in {" ", "\n", "\t"}

\* s.substring(i - 1) and s.substring(i - 1, j), with 1-based positions
From(s, i) == SubSeq(s, i, Len(s))

\* pat occurs in s at position i
MatchesAt(s, pat, i) ==
  /\ i >= 1
  /\ i + Len(pat) - 1 <= Len(s)
  /\ SubSeq(s, i, i + Len(pat) - 1) = pat

startsWith(s, pat) == MatchesAt(s, pat, 1)
endsWith(s, pat) == MatchesAt(s, pat, Len(s) - Len(pat) + 1)

\* the positions at which pat occurs in s, from position i on
OccurrencesFrom(s, pat, i) == {j \in i..Len(s) : MatchesAt(s, pat, j)}
Min(S) == CHOOSE x \in S : \A y \in S : x <= y

\* String.prototype.trim
RECURSIVE trimStart(_)
trimStart(s) == IF s # <<>> /\ IsSpace(Head(s)) THEN trimStart(Tail(s)) ELSE s
RECURSIVE trimEnd(_)
trimEnd(s) ==
  IF s # <<>> /\ IsSpace(s[Len(s)])
    THEN trimEnd(SubSeq(s, 1, Len(s) - 1))
    ELSE s
trim(s) == trimEnd(trimStart(s))

\* String.prototype.split on one separator character
RECURSIVE splitOn(_, _)
splitOn(s, sep) ==
  LET at == {i \in 1..Len(s) : s[i] = sep}
  IN IF at = {} THEN <<s>>
     ELSE <<SubSeq(s, 1, Min(at) - 1)>> \o splitOn(From(s, Min(at) + 1), sep)

\* (s.match(new RegExp(term, 'g')) || []).length for a term of word
\* characters: the occurrences of term in s, found left to right without
\* overlap
RECURSIVE countMatches(_, _)
countMatches(s, term) ==
  LET at == OccurrencesFrom(s, term, 1)
  IN IF term = <<>> \/ at = {} THEN 0
     ELSE 1 + countMatches(From(s, Min(at) + Len(term)), term)

(***************************************************************************)
(* SearchService (assets/js/search.js): the pure functions                 *)
(***************************************************************************)
DotMd == <<".", "m", "d">>
FrontMatterOpen == <<"-", "-", "-", "\n">>
FrontMatterClose == <<"\n", "-", "-", "-", "\n">>
TitleKey == <<"t", "i", "t", "l", "e">>
HeadingMark == <<"#", " ">>
WikiConfigName ==
  <<".", "w", "i", "k", "i", "-", "c", "o", "n", "f", "i", "g", ".", "j",
    "s", "o", "n">>
SidebarName == <<"s", "i", "d", "e", "b", "a", "r", ".", "m", "d">>

\* a value of the front matter: a string, or a list of strings
List(items) == [type |-> "list", items |-> items]
Undefined == [type |-> "undefined"]

\* the value of one front-matter line after the first colon: [a, b] gives a
\* list of the trimmed items, anything else the trimmed string
yamlValue(value) ==
  IF startsWith(value, <<"[">>) /\ endsWith(value, <<"]">>)
    THEN LET arrayValues == splitOn(SubSeq(value, 2, Len(value) - 1), ",")
         IN List([i \in 1..Len(arrayValues) |-> trim(arrayValues[i])])
    ELSE Str(value)

\* the metadata of the lines of a front-matter block: a line with a colon sets
\* the key before its first colon, a later line overrides an earlier one
RECURSIVE yamlLines(_, _)
yamlLines(lines, metadata) ==
  IF lines = <<>> THEN metadata
  ELSE LET line == Head(lines)
           colons == {i \in 1..Len(line) : line[i] = ":"}
       IN IF colons = {} THEN yamlLines(Tail(lines), metadata)
          ELSE LET key == trim(SubSeq(line, 1, Min(colons) - 1))
                   value == trim(From(line, Min(colons) + 1))
               IN yamlLines(Tail(lines),
                    [k \in DOMAIN metadata \cup {key} |->
                       IF k = key THEN yamlValue(value) ELSE metadata[k]])

\* a mutant of frontMatterEnd: the block need not open the content
frontMatterEndUnanchored(content) ==
  LET at == OccurrencesFrom(content, FrontMatterClose, Len(FrontMatterOpen) + 1)
  IN IF at = {} THEN 0 ELSE Min(at)

\* the match of /^---\n([\s\S]*?)\n---\n([\s\S]*)$/: the position of the
\* first closing line after the opening one, 0 when there is no match
frontMatterEnd(content) ==
  IF ~startsWith(content, FrontMatterOpen) THEN 0
  ELSE LET at == OccurrencesFrom(content, FrontMatterClose,
                                 Len(FrontMatterOpen) + 1)
       IN IF at = {} THEN 0 ELSE Min(at)

\* SearchService.parseFrontMatter: {metadata, content}, metadata undefined
\* when the content does not start with a front-matter block
parseFrontMatter(content) ==
  LET close == frontMatterEnd(content)
  IN IF close = 0
       THEN [hasMetadata |-> FALSE, metadata |-> EmptyMap, content |-> content]
       ELSE [hasMetadata |-> TRUE,
             metadata |->
               yamlLines(splitOn(SubSeq(content, Len(FrontMatterOpen) + 1,
                                        close - 1), "\n"),
                         EmptyMap),
             content |-> From(content, close + Len(FrontMatterClose))]

\* the capture of /^# (.+)$/m: the rest of the first line that starts with
\* "# " and goes on; <<>> when there is no such line
RECURSIVE firstHeading(_)
firstHeading(lines) ==
  IF lines = <<>> THEN <<>>
  ELSE IF startsWith(Head(lines), HeadingMark) /\ Len(Head(lines)) > 2
    THEN From(Head(lines), 3)
  ELSE firstHeading(Tail(lines))

\* fileName.replace('.md', ''): the first occurrence is removed
removeFirst(s, pat) ==
  LET at == OccurrencesFrom(s, pat, 1)
  IN IF at = {} THEN s
     ELSE SubSeq(s, 1, Min(at) - 1) \o From(s, Min(at) + Len(pat))

\* replace(/-|_/g, ' ') and then replace(/\b\w/g, c => c.toUpperCase())
humanize(s) ==
  LET spaced == [i \in 1..Len(s) |-> IF s[i] \in {"-", "_"} THEN " " ELSE s[i]]
  IN [i \in 1..Len(spaced) |->
        IF IsWordChar(spaced[i]) /\ (i = 1 \/ ~IsWordChar(spaced[i - 1]))
          THEN UpperChar(spaced[i])
          ELSE spaced[i]]

\* SearchService.getFileTitle
getFileTitle(path, content) ==
  LET titleMatch == firstHeading(splitOn(content, "\n"))
      segments == splitOn(path, "/")
  IN IF titleMatch # <<>> THEN titleMatch
     ELSE humanize(removeFirst(segments[Len(segments)], DotMd))

\* the words of a text: lower case, every character that is neither \w nor
\* \s replaced by a space, split on runs of white space
RECURSIVE splitWords(_, _)
splitWords(s, word) ==
  IF s = <<>> THEN (IF word = <<>> THEN <<>> ELSE <<word>>)
  ELSE IF IsWordChar(Head(s)) THEN splitWords(Tail(s), Append(word, Head(s)))
  ELSE (IF word = <<>> THEN <<>> ELSE <<word>>) \o splitWords(Tail(s), <<>>)

\* the terms of a text: its words longer than 2 characters
terms(text) == SelectSeq(splitWords(toLowerCase(text), <<>>), LAMBDA w : Len(w) > 2)

\* new Set(words): the first occurrence of each word, in order
RECURSIVE unique(_)
unique(words) ==
  IF words = <<>> THEN <<>>
  ELSE LET init == unique(SubSeq(words, 1, Len(words) - 1))
           last == words[Len(words)]
       IN IF last \in Range(init) THEN init ELSE Append(init, last)

\* SearchService.tokenize
tokenize(content) == unique(terms(content))

\* the property names a plain object inherits from Object.prototype that are
\* words of the tokenizer (lower case, \w only, longer than 2)
KeyConstructor == <<"c", "o", "n", "s", "t", "r", "u", "c", "t", "o", "r">>
KeyProto == <<"_", "_", "p", "r", "o", "t", "o", "_", "_">>
ObjectPrototypeKeys == {KeyConstructor, KeyProto}

\* this.searchIndex[word].some(...) throws a TypeError: the value read is an
\* inherited property, which is no array
postingThrows(index, word) ==
  word \notin DOMAIN index /\ word \in ObjectPrototypeKeys

\* metadata?.title || this.getFileTitle(path, cleanContent)
docTitle(parsed, path) ==
  LET metadata == parsed.metadata
      title == IF parsed.hasMetadata /\ TitleKey \in DOMAIN metadata
                 THEN metadata[TitleKey]
                 ELSE Undefined
  IN IF title.type = "list" \/ Truthy(title)
       THEN title
       ELSE Str(getFileTitle(path, parsed.content))

\* the document object of indexFile
makeDoc(path, content) ==
  LET parsed == parseFrontMatter(content)
  IN [path |-> path, title |-> docTitle(parsed, path), content |-> parsed.content]

\* the loop of indexFile over the tokens: the index after it, and whether it
\* threw; a throw leaves the postings made before it
RECURSIVE postTokens(_, _, _)
postTokens(index, tokens, doc) ==
  IF tokens = <<>> THEN [index |-> index, threw |-> FALSE]
  ELSE LET word == Head(tokens)
       IN IF postingThrows(index, word) THEN [index |-> index, threw |-> TRUE]
          ELSE LET list == IF word \in DOMAIN index THEN index[word] ELSE <<>>
                   isAlreadyIndexed ==
                     \E i \in 1..Len(list) : list[i].path = doc.path
                   posted == IF isAlreadyIndexed THEN list ELSE Append(list, doc)
               IN postTokens([k \in DOMAIN index \cup {word} |->
                                IF k = word THEN posted ELSE index[k]],
                             Tail(tokens), doc)

\* the query terms of searchInFiles: not de-duplicated
queryTerms(query) == terms(query)

\* searchInFiles throws a TypeError: a term reads an inherited property, which
\* is not iterable, or a matching document has a title that is no string
searchThrows(index, query) ==
  \E i \in 1..Len(queryTerms(query)) :
    LET term == queryTerms(query)[i]
    IN \/ postingThrows(index, term)
       \/ /\ term \in DOMAIN index
          /\ \E j \in 1..Len(index[term]) : index[term][j].title.type # "string"

\* the matches of the terms, in the order the loops of searchInFiles meet them
RECURSIVE termMatches(_, _)
termMatches(index, qterms) ==
  IF qterms = <<>> THEN <<>>
  ELSE LET term == Head(qterms)
           matches == IF term \in DOMAIN index THEN index[term] ELSE <<>>
       IN [j \in 1..Len(matches) |->
             [doc |-> matches[j],
              score |-> countMatches(toLowerCase(matches[j].content), term)
                        + countMatches(toLowerCase(matches[j].title.s), term) * 3]]
          \o termMatches(index, Tail(qterms))

\* Object.keys(termResults): the paths in the order of their first match
RECURSIVE firstPaths(_)
firstPaths(matches) ==
  IF matches = <<>> THEN <<>>
  ELSE LET init == firstPaths(SubSeq(matches, 1, Len(matches) - 1))
           path == matches[Len(matches)].doc.path
       IN IF path \in Range(init) THEN init ELSE Append(init, path)

RECURSIVE sumScores(_, _)
sumScores(matches, path) ==
  IF matches = <<>> THEN 0
  ELSE (IF Head(matches).doc.path = path THEN Head(matches).score ELSE 0)
       + sumScores(Tail(matches), path)

\* a mutant of sortByScore: the results are left in the order of their paths
sortByScoreNever(results) == results

\* results.sort((a, b) => b.score - a.score): stable, highest score first
RECURSIVE sortByScore(_)
sortByScore(results) ==
  IF results = <<>> THEN <<>>
  ELSE LET best == Min({i \in 1..Len(results) :
                          \A j \in 1..Len(results) :
                            results[j].score <= results[i].score})
       IN <<results[best]>>
          \o sortByScore(SubSeq(results, 1, best - 1)
                         \o SubSeq(results, best + 1, Len(results)))

\* SearchService.searchInFiles, where it does not throw
searchInFiles(index, query) ==
  LET matches == termMatches(index, queryTerms(query))
      paths == firstPaths(matches)
      docOf(path) ==
        matches[Min({i \in 1..Len(matches) : matches[i].doc.path = path})].doc
  IN sortByScore([i \in 1..Len(paths) |->
                    [path |-> paths[i],
                     title |-> docOf(paths[i]).title.s,
                     score |-> sumScores(matches, paths[i])]])

(***************************************************************************)
(* The contents API of the repository, as getDirectoryContents reads it    *)
(***************************************************************************)
AsciiOrder ==
  <<"\n", " ", "#", ",", "-", ".", "/">> \o Digits \o <<":">> \o UpperAlpha
  \o <<"[", "]", "_">> \o LowerAlpha
Rank(ch) == CHOOSE i \in 1..Len(AsciiOrder) : AsciiOrder[i] = ch

RECURSIVE LexLess(_, _)
LexLess(a, b) ==
  IF b = <<>> THEN FALSE
  ELSE IF a = <<>> THEN TRUE
  ELSE IF Head(a) # Head(b) THEN Rank(Head(a)) < Rank(Head(b))
  ELSE LexLess(Tail(a), Tail(b))

\* the files of the store r
Files(r) == {p \in DOMAIN r : r[p] # Null}

lastSegment(path) == LET segments == splitOn(path, "/") IN segments[Len(segments)]

\* the entries of the directory dir (<<>> is the root): one per file and one
\* per subdirectory directly below it
Entries(r, dir) ==
  LET prefix == IF dir = <<>> THEN <<>> ELSE Append(dir, "/")
      below == {p \in Files(r) : startsWith(p, prefix) /\ Len(p) > Len(prefix)}
      entry(p) ==
        LET segments == splitOn(From(p, Len(prefix) + 1), "/")
        IN [name |-> segments[1],
            path |-> prefix \o segments[1],
            type |-> IF Len(segments) > 1 THEN "dir" ELSE "file"]
  IN {entry(p) : p \in below}

\* a listing is ordered by name
RECURSIVE SortByName(_)
SortByName(entries) ==
  IF entries = {} THEN <<>>
  ELSE LET first == CHOOSE e \in entries :
                      \A o \in entries \ {e} : LexLess(e.name, o.name)
       IN <<first>> \o SortByName(entries \ {first})

\* the status of GET contents/path
listStatus(r, path, outcome) ==
  IF outcome = "fail" THEN 500
  ELSE IF path \in Files(r) \/ Entries(r, path) # {} THEN 200
  ELSE 404

\* getDirectoryContents after its response: "throw", or the array it returns
\* (no entry on 404, the one object of a file wrapped in an array)
directoryContents(r, path, status) ==
  IF status = 404 THEN <<>>
  ELSE IF path \in Files(r)
    THEN <<[name |-> lastSegment(path), path |-> path, type |-> "file"]>>
  ELSE SortByName(Entries(r, path))

(***************************************************************************)
(* The wiki of the search runs: its files, their contents, the queries     *)
(***************************************************************************)
FileH == <<"h", ".", "m", "d">>
FileT == <<"t", ".", "m", "d">>
FileSidebar == <<"s", "i", "d", "e", "b", "a", "r", ".", "m", "d">>
FileDA == <<"d", "/", "a", ".", "m", "d">>
FileVC == <<"v", ".", "1", "/", "c", ".", "m", "d">>
DocTitled ==
  <<"-", "-", "-", "\n", "t", "i", "t", "l", "e", ":", " ", "Z", "e", "d",
    "\n", "-", "-", "-", "\n", "f", "o", "o", " ", "b", "a", "r">>
DocBody == <<"z", "e", "d", " ", "f", "o", "o">>
DocConstructor ==
  <<"f", "o", "o", " ", "c", "o", "n", "s", "t", "r", "u", "c", "t", "o",
    "r">>
DocSidebar == <<"-", " ", "[", "H", "]", "(", "h", ")">>
DocC == <<"c", "a", "t">>
QueryZed == <<"Z", "e", "d">>
QueryFoo == <<"f", "o", "o">>
QueryConstructor == <<"c", "o", "n", "s", "t", "r", "u", "c", "t", "o", "r">>
DocEmpty == <<>>
DocHeading ==
  <<"#", " ", "Z", "e", "d", "\n", "z", "e", "d", " ", "f", "o", "o">>
QueryZedFoo == <<"z", "e", "d", " ", "f", "o", "o">>

SearchPaths == {FileH, FileT, FileSidebar, FileDA, FileVC}
SearchDocs == {DocTitled, DocBody, DocEmpty, DocConstructor, DocHeading}
Queries == {QueryZed, QueryFoo, QueryConstructor, QueryZedFoo}
MaxSearches == 2

(***************************************************************************)
(* SearchService: the crawl of initSearchIndex                             *)
(***************************************************************************)
ListRequest(path) == [method |-> "GET", for |-> "list", path |-> path]
FileRequest(path) == [method |-> "GET", for |-> "file", path |-> path]
Logged(kind, path, outcome) == [kind |-> kind, path |-> path, outcome |-> outcome]

\* indexFile from the value of getFile on: null and '' are left out, a throw
\* in the loop over the tokens is caught before the file is marked as indexed
indexContent(cs, path, content) ==
  IF ~Truthy(content) THEN cs
  ELSE LET doc == makeDoc(path, content.s)
           posted == postTokens(cs.index, tokenize(doc.content), doc)
       IN [cs EXCEPT !.index = posted.index,
                     !.log = Append(@, Logged("doc", path, "created")),
                     !.indexed = IF posted.threw THEN @ ELSE @ \cup {path}]

\* the crawl from the array of a listing, or from the end of an indexFile, up
\* to its next request: the loop of indexDirectory over the items, the return
\* of an indexDirectory whose items are done, the calls of indexFile that the
\* set of indexed files or the cache answers
RECURSIVE runCrawl(_, _)
runCrawl(cs, t) ==
  IF cs.stack = <<>> THEN cs
  ELSE
    LET n == Len(cs.stack)
        items == cs.stack[n].items
    IN IF items = <<>>
         THEN runCrawl([cs EXCEPT !.stack = SubSeq(@, 1, n - 1)], t)
       ELSE
         LET item == Head(items)
             rest == [cs EXCEPT !.stack[n].items = Tail(items)]
         IN IF item.name = WikiConfigName \/ item.name = SidebarName
              THEN runCrawl(rest, t)
            ELSE IF item.type = "dir"
              THEN [rest EXCEPT
                      !.stack = Append(@, [path |-> item.path, items |-> <<>>]),
                      !.pending = ListRequest(normalizePath(item.path))]
            ELSE IF item.type = "file" /\ endsWith(item.name, DotMd)
              THEN IF item.path \in cs.indexed THEN runCrawl(rest, t)
                   ELSE
                     LET path == normalizePath(item.path)
                         cachedContent == getFromCache(cs.cache, t, path)
                         looked == [rest EXCEPT
                                      !.cache = cacheAfterGet(@, t, path)]
                     IN IF Truthy(cachedContent)
                          THEN runCrawl(
                                 indexContent(
                                   [looked EXCEPT !.log =
                                      Append(@, Logged("file", item.path, "cached"))],
                                   item.path, cachedContent), t)
                          ELSE [looked EXCEPT !.pending = FileRequest(item.path)]
            ELSE runCrawl(rest, t)

\* a mutant of retryWhileIndexing: a search never answers with the notice
retryNever(indexing) == FALSE

\* performSearch, the test `if (this.isIndexing)`
retryWhileIndexing(indexing) == indexing

\* performSearch from searchInFiles on: the results, or none and the notice of
\* a failed search when searchInFiles throws
searchNow(index, query) ==
  IF searchThrows(index, query)
    THEN [query |-> query, pc |-> "returned", results |-> <<>>,
          notice |-> "failed"]
    ELSE [query |-> query, pc |-> "returned",
          results |-> searchInFiles(index, query), notice |-> "none"]

\* a mutant of stillIndexing: the flag is not reset when the crawl ends
stillIndexingAlways(cs) == TRUE

\* isIndexing once the crawl is in state cs: the finally block of
\* initSearchIndex resets it when no indexDirectory frame is left
stillIndexing(cs) == cs.stack # <<>>

\* the crawl is left in state cs: when no frame is left, initSearchIndex ends,
\* and the performSearch that awaited it goes on to its search
SettleIn(cs) ==
  /\ crawl' = [stack |-> cs.stack, pending |-> cs.pending]
  /\ searchIndex' = cs.index
  /\ indexedFiles' = cs.indexed
  /\ cache' = cs.cache
  /\ crawlLog' = cs.log
  /\ IF cs.stack = <<>>
       THEN /\ isIndexing' = stillIndexing(cs)
            /\ searches' = [i \in DOMAIN searches |->
                 IF searches[i].pc = "awaitIndex"
                   THEN searchNow(cs.index, searches[i].query)
                   ELSE searches[i]]
       ELSE UNCHANGED <<isIndexing, searches>>

Settle(state) == \E cs \in {state} : SettleIn(cs)

\* the state of the crawl when a response arrives
crawlState(log) ==
  [stack |-> crawl.stack, pending |-> NoRequest, index |-> searchIndex,
   indexed |-> indexedFiles, cache |-> cache, log |-> log]

\* a mutant of needsIndex: the index is built again whenever no crawl runs
needsIndexWhenIdle(index, indexing) == ~indexing

\* performSearch starts initSearchIndex: !this.searchIndex && !this.isIndexing
needsIndex(index, indexing) == index = Null /\ ~indexing

\* the search handler of the page: performSearch(query) up to its first
\* await, or up to its return
PerformSearchCall(query) ==
  /\ Len(searches) < MaxSearches
  /\ IF needsIndex(searchIndex, isIndexing)
       THEN IF getApiUrlThrows(config)
              THEN \* the listing of the root throws before any request:
                   \* initSearchIndex catches it and the search goes on
                   /\ searchIndex' = EmptyMap
                   /\ isIndexing' = FALSE
                   /\ crawlLog' =
                        Append(crawlLog, Logged("list", <<>>, "unconfigured"))
                   /\ searches' = Append(searches, searchNow(EmptyMap, query))
                   /\ UNCHANGED <<crawl, indexedFiles>>
              ELSE /\ searchIndex' = EmptyMap
                   /\ isIndexing' = TRUE
                   /\ crawl' = [stack |-> <<[path |-> <<>>, items |-> <<>>]>>,
                                pending |-> ListRequest(normalizePath(<<>>))]
                   /\ searches' =
                        Append(searches,
                               [query |-> query, pc |-> "awaitIndex",
                                results |-> <<>>, notice |-> "none"])
                   /\ UNCHANGED <<crawlLog, indexedFiles>>
     ELSE IF retryWhileIndexing(isIndexing)
       THEN /\ searches' =
                 Append(searches,
                        [query |-> query, pc |-> "returned",
                         results |-> <<>>, notice |-> "retry"])
            /\ UNCHANGED <<searchIndex, isIndexing, crawl, crawlLog,
                           indexedFiles>>
     ELSE /\ searches' = Append(searches, searchNow(searchIndex, query))
          /\ UNCHANGED <<searchIndex, isIndexing, crawl, crawlLog,
                         indexedFiles>>
  /\ UNCHANGED <<cache, now, remote, token, config, calls>>

\* the answer to the listing an indexDirectory awaits: a failure is rethrown
\* by every indexDirectory and ends initSearchIndex, a listing is walked
CrawlListResponse(outcome) ==
  /\ crawl.pending.method = "GET"
  /\ crawl.pending.for = "list"
  /\ LET path == crawl.pending.path
         status == listStatus(remote, path, outcome)
         n == Len(crawl.stack)
     IN IF status # 200 /\ status # 404
          THEN Settle([crawlState(Append(crawlLog, Logged("list", path, "fail")))
                         EXCEPT !.stack = <<>>])
          ELSE Settle(runCrawl(
                 [crawlState(Append(crawlLog, Logged("list", path, "ok")))
                    EXCEPT !.stack[n].items =
                             directoryContents(remote, path, status)],
                 now))
  /\ UNCHANGED <<now, remote, token, config, calls>>

\* the answer to the GET of the getFile an indexFile awaits: a failure is
\* caught by indexFile, a content is cached and indexed; the crawl goes on
CrawlFileResponse(outcome) ==
  /\ crawl.pending.method = "GET"
  /\ crawl.pending.for = "file"
  /\ LET itemPath == crawl.pending.path
         path == normalizePath(itemPath)
         status == getStatus(remote, path, outcome)
         todo == getFileOnStatus(status)
     IN IF todo = "throw"
          THEN Settle(runCrawl(
                 crawlState(Append(crawlLog, Logged("file", itemPath, "fail"))),
                 now))
        ELSE IF todo = "null"
          THEN Settle(runCrawl(
                 crawlState(Append(crawlLog, Logged("file", itemPath, "ok"))),
                 now))
        ELSE Settle(runCrawl(
               indexContent(
                 [crawlState(Append(crawlLog, Logged("file", itemPath, "ok")))
                    EXCEPT !.cache = addToCache(@, now, path, remote[path].s)],
                 itemPath, remote[path]),
               now))
  /\ UNCHANGED <<now, remote, token, config, calls>>

\* a page that was loaded before the first search is in the cache
InitSearch ==
  /\ remote \in {r \in [SearchPaths -> {Str(d) : d \in SearchDocs \cup {DocSidebar, DocC}}] :
                   /\ r[FileSidebar] = Str(DocSidebar)
                   /\ r[FileDA] = Str(DocBody)
                   /\ r[FileVC] = Str(DocC)
                   /\ r[FileH] \in {Str(d) : d \in SearchDocs}
                   /\ r[FileT] \in {Str(d) : d \in SearchDocs}}
  /\ cache \in {EmptyMap, addToCache(EmptyMap, 0, FileH, remote[FileH].s)}
  /\ now = 0
  /\ token = Null
  /\ config = DefaultConfig
  /\ calls = <<>>
  /\ searchIndex = Null
  /\ isIndexing = FALSE
  /\ indexedFiles = {}
  /\ crawl = NoCrawl
  /\ crawlLog = <<>>
  /\ searches = <<>>
  /\ pure = NoPure
  /\ proxy = <<>>
  /\ browser = NoBrowser

NextSearch ==
  \/ \E query \in Queries : PerformSearchCall(query) /\ UNCHANGED auxVars
  \/ \E outcome \in Outcomes : CrawlListResponse(outcome) /\ UNCHANGED auxVars
  \/ \E outcome \in Outcomes : CrawlFileResponse(outcome) /\ UNCHANGED auxVars
  \/ SetContentRepo /\ UNCHANGED <<searchVars, auxVars>>

SpecSearch == InitSearch /\ [][NextSearch]_vars

(***************************************************************************)
(* Properties of the SearchService                                         *)
(***************************************************************************)
\* the state of the indexer
Phase ==
  IF isIndexing THEN "Indexing"
  ELSE IF searchIndex = Null THEN "Idle"
  ELSE "Ready"

\* initSearchIndex has run and ended
CrawlDone == searchIndex # Null /\ ~isIndexing

\* a call of the crawl with this outcome is in the log
LoggedOutcome(outcome) ==
  \E i \in DOMAIN crawlLog : crawlLog[i].outcome = outcome

\* the crawl made remote calls and every one of them succeeded
EveryCallSucceeded ==
  /\ crawlLog # <<>>
  /\ ~LoggedOutcome("fail")
  /\ ~LoggedOutcome("unconfigured")

\* path is a markdown file that has no reserved name
IsPage(path) ==
  /\ endsWith(lastSegment(path), DotMd)
  /\ lastSegment(path) # WikiConfigName
  /\ lastSegment(path) # SidebarName

\* the document indexFile makes of the stored file
StoredDoc(path) == makeDoc(path, remote[path].s)
BodyTokens(path) == Range(tokenize(StoredDoc(path).content))

PostedUnder(path, word) ==
  /\ word \in DOMAIN searchIndex
  /\ \E j \in 1..Len(searchIndex[word]) : searchIndex[word][j].path = path

PostedSomewhere(path) == \E word \in DOMAIN searchIndex : PostedUnder(path, word)

ReturnedFor(path, query) ==
  /\ ~searchThrows(searchIndex, query)
  /\ \E j \in 1..Len(searchInFiles(searchIndex, query)) :
       searchInFiles(searchIndex, query)[j].path = path

\* C3: after a crawl in which every remote call succeeded, every markdown
\* file of the tree, at any depth, that has no reserved name is in
\* indexedFiles, is posted under each token of its body and is returned by a
\* query for such a token; a file with a reserved name is not indexed.
C3_CrawlIndexesEveryPage ==
  (CrawlDone /\ EveryCallSucceeded) =>
    \A path \in Files(remote) :
      IF IsPage(path)
        THEN /\ path \in indexedFiles
             /\ \A word \in BodyTokens(path) :
                  PostedUnder(path, word) /\ ReturnedFor(path, word)
        ELSE path \notin indexedFiles /\ ~PostedSomewhere(path)

\* the calls of performSearch begun in this step
SearchBegins == Len(searches') = Len(searches) + 1

\* C4: the indexer goes from Idle to Indexing to Ready and never back; it
\* leaves Idle in the step of a performSearch call, and a performSearch call
\* in Idle leaves Idle; a performSearch call made while Indexing has returned
\* no result and the retry notice at the end of its step, and the crawl, its
\* requests, the index and the set of indexed files are as before.
C4_IndexerLifecycle ==
  [][/\ (Phase = "Idle" /\ Phase' # "Idle") =>
          /\ SearchBegins
          /\ Phase' = "Indexing" \/ getApiUrlThrows(config)
     /\ (Phase = "Idle" /\ SearchBegins) => Phase' # "Idle"
     /\ Phase = "Indexing" => Phase' \in {"Indexing", "Ready"}
     /\ Phase = "Ready" => Phase' = "Ready"
     /\ (Phase = "Indexing" /\ SearchBegins) =>
          /\ searches'[Len(searches')].pc = "returned"
          /\ searches'[Len(searches')].results = <<>>
          /\ searches'[Len(searches')].notice = "retry"
          /\ UNCHANGED <<crawl, crawlLog, searchIndex, indexedFiles,
                         isIndexing, cache>>
          /\ \A i \in DOMAIN searches : searches'[i] = searches[i]]_vars

\* a performSearch call was answered with the retry notice while the crawl of
\* an earlier call, which still awaits it, is running
C4_Witness ==
  /\ isIndexing
  /\ crawl.pending.method = "GET"
  /\ \E i, j \in DOMAIN searches :
       /\ i < j
       /\ searches[i].pc = "awaitIndex"
       /\ searches[j].pc = "returned"
       /\ searches[j].notice = "retry"

\* term occurs once in the title of the document of path and not in its body
OnceInTitleOnly(path, term) ==
  /\ StoredDoc(path).title.type = "string"
  /\ countMatches(toLowerCase(StoredDoc(path).title.s), term) = 1
  /\ countMatches(toLowerCase(StoredDoc(path).content), term) = 0

\* term occurs once in the body of the document of path and not in its title
OnceInBodyOnly(path, term) ==
  /\ StoredDoc(path).title.type = "string"
  /\ countMatches(toLowerCase(StoredDoc(path).title.s), term) = 0
  /\ countMatches(toLowerCase(StoredDoc(path).content), term) = 1

\* C5: when a search for one term T has returned from the built index, and
\* of two indexed documents A has T once in its title only and B has T once
\* in its body only, the results hold A with score 3 before B with score 1.
C5_TitleOutranksBody ==
  CrawlDone =>
    \A i \in DOMAIN searches : \A a, b \in indexedFiles :
      ( /\ searches[i].pc = "returned"
        /\ searches[i].notice # "retry"
        /\ Len(queryTerms(searches[i].query)) = 1
        /\ OnceInTitleOnly(a, queryTerms(searches[i].query)[1])
        /\ OnceInBodyOnly(b, queryTerms(searches[i].query)[1]) )
      => \E m, n \in 1..Len(searches[i].results) :
           /\ m < n
           /\ searches[i].results[m].path = a
           /\ searches[i].results[m].score = 3
           /\ searches[i].results[n].path = b
           /\ searches[i].results[n].score = 1

\* the fetches of files that threw during the crawl
FailedFetches ==
  {i \in DOMAIN crawlLog :
     crawlLog[i].kind = "file" /\ crawlLog[i].outcome = "fail"}

PostedDoc(path, term) ==
  searchIndex[term][CHOOSE j \in 1..Len(searchIndex[term]) :
                      searchIndex[term][j].path = path]
TermScore(path, term) ==
  IF PostedUnder(path, term)
    THEN countMatches(toLowerCase(PostedDoc(path, term).content), term)
         + 3 * countMatches(toLowerCase(PostedDoc(path, term).title.s), term)
    ELSE 0

RECURSIVE ScoreOver(_, _)
ScoreOver(path, qterms) ==
  IF qterms = <<>> THEN 0
  ELSE TermScore(path, Head(qterms)) + ScoreOver(path, Tail(qterms))

\* the searches that returned the result of searchInFiles
Answered == {i \in DOMAIN searches :
               searches[i].pc = "returned" /\ searches[i].notice = "none"}

\* C15: in the result of searchInFiles no path appears twice, the score of a
\* path is the sum over the query terms under which its document is posted
\* of the occurrences of the term in the lower-cased body plus three times
\* those in the lower-cased title, and the scores do not increase along the
\* list.
C15_ScoringAndOrder ==
  \A i \in Answered :
    LET results == searches[i].results
    IN /\ \A m, n \in 1..Len(results) :
            m # n => results[m].path # results[n].path
       /\ \A m \in 1..Len(results) :
            results[m].score =
              ScoreOver(results[m].path, queryTerms(searches[i].query))
       /\ \A m, n \in 1..Len(results) :
            m < n => results[m].score >= results[n].score

\* a search for two terms returned t.md, which has both terms in its body
\* and one of them in its title as well, before h.md, which the crawl had
\* indexed first
C15_Witness ==
  \E i \in Answered :
    /\ searches[i].query = QueryZedFoo
    /\ Len(searches[i].results) = 2
    /\ searches[i].results[1].path = FileT
    /\ searches[i].results[1].score = 6
    /\ searches[i].results[2].path = FileH
    /\ searches[i].results[2].score = 2

(***************************************************************************)
(* The pure functions, applied to inputs drawn from bounded sets           *)
(***************************************************************************)
\* the strings over chars of length up to n
Strings(chars, n) == UNION {[1..k -> chars] : k \in 0..n}

\* every service is as its constructor leaves it
Constructed ==
  /\ cache = EmptyMap
  /\ now = 0
  /\ remote = EmptyMap
  /\ token = Null
  /\ config = DefaultConfig
  /\ calls = <<>>
  /\ searchIndex = Null
  /\ isIndexing = FALSE
  /\ indexedFiles = {}
  /\ crawl = NoCrawl
  /\ crawlLog = <<>>
  /\ searches = <<>>
  /\ proxy = <<>>
  /\ browser = NoBrowser

serviceVars == <<contentVars, searchVars, proxy, browser>>

(***************************************************************************)
(* normalizePath, applied once and then to its own result                  *)
(***************************************************************************)
MaxPathLen == 4
PathChars == {"a", ".", "/"}

InitNormalize ==
  /\ Constructed
  /\ pure \in {[fn |-> "normalizePath", arg |-> p, values |-> <<>>] :
                 p \in Strings(PathChars, MaxPathLen)}

\* path = this.normalizePath(path), on the input and then on the result
NormalizeStep ==
  /\ pure.fn = "normalizePath"
  /\ Len(pure.values) < 2
  /\ pure' = [pure EXCEPT !.values =
                Append(@, normalizePath(IF @ = <<>> THEN pure.arg
                                        ELSE @[Len(@)]))]
  /\ UNCHANGED serviceVars

NextNormalize == NormalizeStep

SpecNormalize == InitNormalize /\ [][NextNormalize]_vars

\* the file name of path, its last segment, has no extension
HasNoExtension(path) == ~Includes(lastSegment(path), ".")

\* C11: normalizePath of a path whose file name has no extension and that
\* does not end in a separator is the path followed by ".md".
C11_AppendsDefaultExtension ==
  ( /\ pure.fn = "normalizePath"
    /\ Len(pure.values) >= 1
    /\ HasNoExtension(pure.arg)
    /\ ~EndsWithChar(pure.arg, "/") )
  => pure.values[1] = pure.arg \o DotMd

\* C12: normalizePath applied to its own result returns that result.
C12_NormalizeIdempotent ==
  (pure.fn = "normalizePath" /\ Len(pure.values) = 2)
  => pure.values[2] = pure.values[1]

\* normalizePath was applied twice to a path that it changes: the slashes
\* around it are removed and the extension is appended
C12_Witness ==
  /\ pure.fn = "normalizePath"
  /\ Len(pure.values) = 2
  /\ pure.arg = <<"/", "a", "/">>
  /\ pure.values[1] = <<"a", ".", "m", "d">>

(***************************************************************************)
(* Front matter: the three copies of the parser, the editor's serializer   *)
(***************************************************************************)
\* App.parseFrontMatter and WikiEditor.parseFrontMatter: the same text as
\* SearchService.parseFrontMatter
appParseFrontMatter(content) == parseFrontMatter(content)
editorParseFrontMatter(content) == parseFrontMatter(content)

RECURSIVE join(_, _)
join(items, sep) ==
  IF items = <<>> THEN <<>>
  ELSE IF Len(items) = 1 THEN items[1]
  ELSE items[1] \o sep \o join(Tail(items), sep)

RECURSIVE concat(_)
concat(items) == IF items = <<>> THEN <<>> ELSE Head(items) \o concat(Tail(items))

KeyTitle == TitleKey
KeyDescription ==
  <<"d", "e", "s", "c", "r", "i", "p", "t", "i", "o", "n">>
KeyTags == <<"t", "a", "g", "s">>
KeyUpdated == <<"u", "p", "d", "a", "t", "e", "d">>
KeyCreated == <<"c", "r", "e", "a", "t", "e", "d">>
KeyAuthor == <<"a", "u", "t", "h", "o", "r">>
\* new Date().toISOString().split('T')[0]
Today == <<"2", "0", "2", "6", "-", "0", "1", "-", "0", "2">>
CommaSpace == <<",", " ">>
ColonSpace == <<":", " ">>
FrontMatterEnd == <<"-", "-", "-", "\n", "\n">>

\* the tags of the form: split on commas, trimmed, the empty ones left out
formTags(value) ==
  LET parts == splitOn(value, ",")
  IN SelectSeq([i \in 1..Len(parts) |-> trim(parts[i])], LAMBDA tag : tag # <<>>)

\* the metadata of generateFrontMatter, as the entries of the object in the
\* order of their insertion
formMetadata(form) ==
  (IF form.title # <<>> THEN <<[key |-> KeyTitle, value |-> Str(form.title)]>>
   ELSE <<>>)
  \o (IF form.description # <<>>
        THEN <<[key |-> KeyDescription, value |-> Str(form.description)]>>
        ELSE <<>>)
  \o (IF form.tags # <<>> /\ formTags(form.tags) # <<>>
        THEN <<[key |-> KeyTags, value |-> List(formTags(form.tags))]>>
        ELSE <<>>)
  \o <<[key |-> KeyUpdated, value |-> Str(Today)]>>
  \o (IF ~form.currentPath THEN <<[key |-> KeyCreated, value |-> Str(Today)]>>
      ELSE <<>>)
  \o (IF form.author # <<>> THEN <<[key |-> KeyAuthor, value |-> Str(form.author)]>>
      ELSE <<>>)

\* one line of the front matter
frontMatterLine(entry) ==
  entry.key \o ColonSpace
  \o (IF entry.value.type = "list"
        THEN <<"[">> \o join(entry.value.items, CommaSpace) \o <<"]">>
        ELSE entry.value.s)
  \o <<"\n">>

\* WikiEditor.generateFrontMatter
generateFrontMatter(form) ==
  LET metadata == formMetadata(form)
  IN FrontMatterOpen
     \o concat([i \in 1..Len(metadata) |-> frontMatterLine(metadata[i])])
     \o FrontMatterEnd

FormTitles == {<<>>, <<"T">>}
FormDescriptions == {<<>>, <<"d">>}
FormTags == {<<>>, <<"a", ",", " ", "b">>, <<" ", ",">>}
FormAuthors == {<<>>, <<"u">>}
Forms ==
  [title : FormTitles, description : FormDescriptions, tags : FormTags,
   currentPath : BOOLEAN, author : FormAuthors]
Bodies == {<<>>, <<"h", "i">>, <<"a", "\n", "-", "-", "-", "\n", "b">>}

NotParsed == [hasMetadata |-> FALSE, metadata |-> EmptyMap, content |-> <<>>]

\* the editor holds a body and the fields of its form
InitRoundTrip ==
  /\ Constructed
  /\ pure \in {[fn |-> "frontMatter", stage |-> "edited", form |-> form,
                body |-> body, text |-> <<>>, parsed |-> NotParsed] :
                 form \in Forms, body \in Bodies}

\* savePage: the content saved is the front matter followed by the body
SavePageContent ==
  /\ pure.fn = "frontMatter"
  /\ pure.stage = "edited"
  /\ pure' = [pure EXCEPT !.stage = "saved",
                          !.text = generateFrontMatter(pure.form) \o pure.body]
  /\ UNCHANGED serviceVars

\* loadPage: the content read is parsed, the body goes to the editor
LoadPageContent ==
  /\ pure.fn = "frontMatter"
  /\ pure.stage = "saved"
  /\ pure' = [pure EXCEPT !.stage = "loaded",
                          !.parsed = editorParseFrontMatter(pure.text)]
  /\ UNCHANGED serviceVars

NextRoundTrip == SavePageContent \/ LoadPageContent

SpecRoundTrip == InitRoundTrip /\ [][NextRoundTrip]_vars

\* C13: the body parsed from the text that the editor saves, its front matter
\* followed by the body, is that body.
C13_FrontMatterRoundTrip ==
  (pure.fn = "frontMatter" /\ pure.stage = "loaded")
  => pure.parsed.content = pure.body

(***************************************************************************)
(* parseFrontMatter on contents put together from a few pieces             *)
(***************************************************************************)
MaxPieces == 6
Dashes == <<"-", "-", "-">>
Pieces == {Dashes, <<"\n">>, <<"a">>, <<"t", ":", " ", "b">>}
PieceContents == {concat(ps) : ps \in Strings(Pieces, MaxPieces)}

InitParse ==
  /\ Constructed
  /\ pure \in {[fn |-> "parseFrontMatter", arg |-> content, values |-> <<>>] :
                 content \in PieceContents}

\* the three copies of the parser are applied to the content
ParseStep ==
  /\ pure.fn = "parseFrontMatter"
  /\ pure.values = <<>>
  /\ pure' = [pure EXCEPT !.values =
                <<appParseFrontMatter(pure.arg), parseFrontMatter(pure.arg),
                  editorParseFrontMatter(pure.arg)>>]
  /\ UNCHANGED serviceVars

NextParse == ParseStep

SpecParse == InitParse /\ [][NextParse]_vars

\* the content starts with a front-matter block: its first line is ---, and
\* a later line is --- again
StartsWithBlock(content) ==
  LET lines == splitOn(content, "\n")
  IN /\ Len(lines) >= 2
     /\ lines[1] = Dashes
     /\ \E i \in 2..Len(lines) : lines[i] = Dashes

\* C14 as stated: for a content that does not start with a front-matter
\* block, each parser returns the empty metadata {} and the content as body.
C14_NoBlockEmptyMetadata ==
  (pure.fn = "parseFrontMatter" /\ pure.values # <<>>
   /\ ~StartsWithBlock(pure.arg))
  => \A i \in 1..3 :
       /\ pure.values[i].hasMetadata
       /\ pure.values[i].metadata = EmptyMap
       /\ pure.values[i].content = pure.arg

\* C14: for a content that does not start with a front-matter block, each of
\* the three parsers returns no metadata (the field is undefined) and the
\* whole content as body.
C14_NoBlockNoMetadata ==
  (pure.fn = "parseFrontMatter" /\ pure.values # <<>>
   /\ ~StartsWithBlock(pure.arg))
  => \A i \in 1..3 :
       /\ ~pure.values[i].hasMetadata
       /\ pure.values[i].content = pure.arg

\* the parsers were applied to a content that has the lines of a block, but
\* after a first line that is not ---
C14_Witness ==
  /\ pure.fn = "parseFrontMatter"
  /\ pure.values # <<>>
  /\ pure.arg = <<"a", "\n", "-", "-", "-", "\n", "-", "-", "-", "\n">>
  /\ ~StartsWithBlock(pure.arg)
  /\ ~pure.values[2].hasMetadata

(***************************************************************************)
(* The title of an indexed document                                        *)
(***************************************************************************)
MaxLines == 3
PathABC == <<"a", "-", "b", "_", "c", ".", "m", "d">>
PathDX == <<"d", "/", "x", ".", "m", "d">>
PathMdb == <<"a", ".", "m", "d", "b", ".", "m", "d">>
TitlePaths == {PathABC, PathDX, PathMdb}
LineTitle == <<"t", "i", "t", "l", "e", ":", " ", "Z">>
LineTitleList == <<"t", "i", "t", "l", "e", ":", " ", "[", "a", "]">>
LineTitleEmpty == <<"t", "i", "t", "l", "e", ":">>
LineHeading == <<"#", " ", "T">>
LineSubHeading == <<"#", "#", " ", "S">>
TitleLines ==
  {Dashes, LineTitle, LineTitleList, LineTitleEmpty, LineHeading, LineSubHeading}
TitleContents == {join(lines, <<"\n">>) : lines \in Strings(TitleLines, MaxLines)}

InitTitle ==
  /\ Constructed
  /\ pure \in {[fn |-> "indexFile", path |-> path, content |-> content,
                values |-> <<>>] :
                 path \in TitlePaths, content \in TitleContents}

\* indexFile makes the document of a file that was read
MakeDocStep ==
  /\ pure.fn = "indexFile"
  /\ pure.values = <<>>
  /\ pure' = [pure EXCEPT !.values = <<makeDoc(pure.path, pure.content)>>]
  /\ UNCHANGED serviceVars

NextTitle == MakeDocStep

SpecTitle == InitTitle /\ [][NextTitle]_vars

\* the lines of a body that are top-level headings
HeadingLines(body) ==
  LET lines == splitOn(body, "\n")
  IN {i \in 1..Len(lines) : startsWith(lines[i], HeadingMark) /\ Len(lines[i]) > 2}

\* the name of a file without its extension
ExtensionRemoved(name) ==
  IF endsWith(name, DotMd) THEN SubSeq(name, 1, Len(name) - Len(DotMd)) ELSE name

\* C16: the title of the document indexFile makes is the text of the first
\* top-level heading of its body, and without such a heading the file name
\* with its extension removed, - and _ as spaces, every word capitalized.
C16_TitleFromBodyOrName ==
  (pure.fn = "indexFile" /\ pure.values # <<>>)
  => LET doc == pure.values[1]
         lines == splitOn(doc.content, "\n")
     IN doc.title =
          Str(IF HeadingLines(doc.content) # {}
                THEN From(lines[Min(HeadingLines(doc.content))], 3)
                ELSE humanize(ExtensionRemoved(lastSegment(pure.path))))

(***************************************************************************)
(* The crawl of a wiki that has a page and a directory of the same name    *)
(***************************************************************************)
FileD == <<"d", ".", "m", "d">>
IndexPaths == {FileD, FileDA, FileH}

InitIndex ==
  /\ remote \in {r \in [IndexPaths -> {Str(d) : d \in SearchDocs}] :
                   /\ r[FileD] \in {Str(DocConstructor), Str(DocBody)}
                   /\ r[FileDA] = Str(DocBody)}
  /\ cache \in {EmptyMap, addToCache(EmptyMap, 0, FileH, remote[FileH].s)}
  /\ now = 0
  /\ token = Null
  /\ config = DefaultConfig
  /\ calls = <<>>
  /\ searchIndex = Null
  /\ isIndexing = FALSE
  /\ indexedFiles = {}
  /\ crawl = NoCrawl
  /\ crawlLog = <<>>
  /\ searches = <<>>
  /\ pure = NoPure
  /\ proxy = <<>>
  /\ browser = NoBrowser

SpecIndex == InitIndex /\ [][NextSearch]_vars

\* the keys of the index
IndexKeys == IF searchIndex = Null THEN {} ELSE DOMAIN searchIndex

\* the document objects that indexFile has made for path
DocsCreated(path) ==
  {i \in DOMAIN crawlLog : crawlLog[i].kind = "doc" /\ crawlLog[i].path = path}

\* every key is a lower-case word longer than 2 characters
KeysAreTokens ==
  \A key \in IndexKeys :
    /\ Len(key) > 2
    /\ key = toLowerCase(key)
    /\ \A i \in 1..Len(key) : IsWordChar(key[i])

\* no posting list holds two documents of one path
PostingsDistinct ==
  \A key \in IndexKeys : \A m, n \in 1..Len(searchIndex[key]) :
    m # n => searchIndex[key][m].path # searchIndex[key][n].path

\* C17: in every state every key of the index is a lower-case word longer
\* than 2 characters, no posting list holds two documents of one path, and
\* indexFile has made at most one document object for each path.
C17_IndexInvariant ==
  /\ KeysAreTokens
  /\ PostingsDistinct
  /\ \A path \in DOMAIN remote : Cardinality(DocsCreated(path)) <= 1

(***************************************************************************)
(* App.loadConfig (assets/js/app.js)                                       *)
(***************************************************************************)
\* documents at .wiki-config.json: one with a title and a content
\* repository, one with a title only, one that is no JSON
ConfigFull ==
  <<"{", "\"", "t", "i", "t", "l", "e", "\"", ":", "\"", "W", "\"",
    ",", "\"", "c", "o", "n", "t", "e", "n", "t", "R", "e", "p", "o",
    "\"", ":", "\"", "o", "w", "n", "e", "r", "/", "w", "i", "k", "i",
    "\"", "}">>
ConfigTitle ==
  <<"{", "\"", "t", "i", "t", "l", "e", "\"", ":", "\"", "W", "\"",
    "}">>
ConfigBroken ==
  <<"{", "\"", "t", "i", "t", "l", "e", "\"">>
ConfigDocs == {ConfigFull, ConfigTitle, ConfigBroken}

\* JSON.parse of these documents: the object, or a SyntaxError
parseConfig(text) ==
  IF text = ConfigFull
    THEN [ok |-> TRUE, value |-> [title |-> "W", contentRepo |-> RepoName]]
  ELSE IF text = ConfigTitle
    THEN [ok |-> TRUE, value |-> [title |-> "W"]]
  ELSE [ok |-> FALSE, value |-> EmptyMap]

\* { ...cfg, ...fields }
Override(cfg, fields) ==
  [k \in DOMAIN cfg \cup DOMAIN fields |->
     IF k \in DOMAIN fields THEN fields[k] ELSE cfg[k]]

\* loadConfig from the value of getFile on: the configuration after it, and
\* the error it caught
applyConfig(cfg, configData) ==
  IF ~Truthy(configData) THEN [config |-> cfg, error |-> NoError]
  ELSE IF parseConfig(configData.s).ok
    THEN [config |-> Override(cfg, parseConfig(configData.s).value),
          error |-> NoError]
  ELSE [config |-> cfg, error |-> [message |-> "SyntaxError"]]

\* loadConfig up to the first await of its getFile, or up to its return: a
\* throw of getFile is caught and the configuration is left as it is
LoadConfigCall(c) ==
  /\ NextCall(c)
  /\ LET path == normalizePath(WikiConfigName)
         cachedContent == getFromCache(cache, now, path)
         applied == applyConfig(config, cachedContent)
     IN /\ cache' = cacheAfterGet(cache, now, path)
        /\ IF Truthy(cachedContent)
             THEN /\ config' = applied.config
                  /\ calls' = Step(c, [IdleCall EXCEPT !.op = "loadConfig",
                                         !.pc = "returned", !.path = path,
                                         !.error = applied.error])
           ELSE IF getApiUrlThrows(config)
             THEN /\ config' = config
                  /\ calls' = Step(c, [IdleCall EXCEPT !.op = "loadConfig",
                                         !.pc = "returned", !.path = path,
                                         !.error = NotConfigured])
           ELSE /\ config' = config
                /\ calls' = Step(c, [IdleCall EXCEPT !.op = "loadConfig",
                                       !.pc = "fetch", !.path = path,
                                       !.request = [method |-> "GET", url |-> path,
                                                    accept |-> "raw"]])
  /\ UNCHANGED <<now, remote, token>>

\* the response to the GET of the getFile that loadConfig awaits
LoadConfigResponse(c, outcome) ==
  /\ calls[c].op = "loadConfig"
  /\ calls[c].pc = "fetch"
  /\ LET path == calls[c].path
         status == getStatus(remote, path, outcome)
         todo == getFileOnStatus(status)
         applied == applyConfig(config, remote[path])
     IN IF todo = "throw"
          THEN /\ calls' = Step(c, [calls[c] EXCEPT !.pc = "returned",
                                         !.request = NoRequest,
                                         !.error = ApiError(status)])
               /\ UNCHANGED <<cache, config>>
        ELSE IF todo = "null"
          THEN /\ calls' = Step(c, [calls[c] EXCEPT !.pc = "returned",
                                         !.request = NoRequest])
               /\ UNCHANGED <<cache, config>>
        ELSE /\ calls' = Step(c, [calls[c] EXCEPT !.pc = "returned",
                                       !.request = NoRequest,
                                       !.error = applied.error])
             /\ cache' = addToCache(cache, now, path, remote[path].s)
             /\ config' = applied.config
  /\ UNCHANGED <<now, remote, token>>

\* a page load has constructed the services; the store holds a configuration
\* document or none
InitConfig ==
  /\ cache = EmptyMap
  /\ now = 0
  /\ remote \in [{WikiConfigName} -> {Null} \cup {Str(d) : d \in ConfigDocs}]
  /\ token = Null
  /\ config = DefaultConfig
  /\ calls = [c \in 1..MaxReads |-> IdleCall]
  /\ searchIndex = Null
  /\ isIndexing = FALSE
  /\ indexedFiles = {}
  /\ crawl = NoCrawl
  /\ crawlLog = <<>>
  /\ searches = <<>>
  /\ pure = NoPure
  /\ proxy = <<>>
  /\ browser = NoBrowser

NextConfig ==
  \/ \E c \in CallIds : LoadConfigCall(c) /\ UNCHANGED <<searchVars, auxVars>>
  \/ \E c \in CallIds, o \in Outcomes :
       LoadConfigResponse(c, o) /\ UNCHANGED <<searchVars, auxVars>>
  \/ \E d \in cacheTTL..(cacheTTL + MaxDrift) :
       Tick(d) /\ UNCHANGED <<searchVars, auxVars>>
  \/ \E v \in {Null} \cup {Str(d) : d \in ConfigDocs} :
       RemoteEdit(WikiConfigName, v) /\ UNCHANGED <<searchVars, auxVars>>
  \/ SetContentRepo /\ UNCHANGED <<searchVars, auxVars>>

SpecConfig == InitConfig /\ [][NextConfig]_vars

\* a call of loadConfig begins in slot c in this step
LoadConfigBegins(c) ==
  /\ calls[c].pc = "idle" \/ Settled(calls[c])
  /\ calls'[c].op = "loadConfig"
  /\ calls'[c] # calls[c]

\* the store holds a configuration document that is a JSON object
ConfigStored ==
  /\ remote[WikiConfigName] # Null
  /\ parseConfig(remote[WikiConfigName].s).ok

\* C18: a loadConfig that begins with the configuration and the cache of a
\* fresh page load while the store holds a configuration document requests
\* the document from the store; and when the read of a loadConfig ends
\* without an error and the store holds a configuration document, the
\* configuration is the one before overridden by the fields of the document.
C18_ConfigReadFromStore ==
  [][\A c \in CallIds :
       /\ ( /\ LoadConfigBegins(c)
            /\ config = DefaultConfig
            /\ cache = EmptyMap
            /\ ConfigStored )
          => /\ calls'[c].pc = "fetch"
             /\ calls'[c].request.method = "GET"
       /\ ( /\ calls[c].op = "loadConfig"
            /\ calls[c].pc = "fetch"
            /\ calls'[c].pc = "returned"
            /\ calls'[c].error = NoError
            /\ ConfigStored )
          => config' = Override(config, parseConfig(remote[WikiConfigName].s).value)]_vars

(***************************************************************************)
(* The token-exchange proxy (proxy/token-exchange.js) and its client       *)
(***************************************************************************)
MaxInvocations == 2

\* process.env.GITHUB_CLIENT_ID and process.env.GITHUB_CLIENT_SECRET
ClientId == "client-id"
ClientSecret == "client-secret"

\* request bodies: a code, an empty code, no code, no JSON
BodyCode ==
  <<"{", "\"", "c", "o", "d", "e", "\"", ":", "\"", "c", "\"", "}">>
BodyEmptyCode ==
  <<"{", "\"", "c", "o", "d", "e", "\"", ":", "\"", "\"", "}">>
BodyNoCode == <<"{", "}">>
BodyMalformed == <<"{">>
RequestBodies == {BodyCode, BodyEmptyCode, BodyNoCode, BodyMalformed}
Methods == {"POST", "OPTIONS", "GET"}
Codes == {"c", ""}

\* JSON.parse(event.body): the object, or a SyntaxError
parseBody(body) ==
  IF body = BodyCode THEN [ok |-> TRUE, value |-> [code |-> "c"]]
  ELSE IF body = BodyEmptyCode THEN [ok |-> TRUE, value |-> [code |-> ""]]
  ELSE IF body = BodyNoCode THEN [ok |-> TRUE, value |-> EmptyMap]
  ELSE [ok |-> FALSE, value |-> EmptyMap]

\* JSON.stringify({ code })
stringifyCode(code) == IF code = "" THEN BodyEmptyCode ELSE BodyCode

\* a mutant of codeMissing: every parsed body is taken to carry a code
codeMissingNever(parsed) == FALSE

\* the test `if (!code)` on requestBody.code
codeMissing(parsed) ==
  "code" \notin DOMAIN parsed \/ parsed["code"] = ""

\* the bodies of responses: JSON.stringify of an object, or the empty text
Json(fields) == [json |-> fields]
NoBody == [text |-> ""]
HasField(body, field) == "json" \in DOMAIN body /\ field \in DOMAIN body.json

\* what GitHub answers to the exchange: the token, an error, or nothing that
\* response.json() can read (the fetch or the parse fails)
GithubToken ==
  [access_token |-> "gho_token", token_type |-> "bearer", scope |-> "repo"]
GithubError ==
  [error |-> "bad_verification_code",
   error_description |-> "The code passed is incorrect or expired."]
NoAnswer == [kind |-> "none"]
GithubAnswers ==
  {[kind |-> "json", data |-> GithubToken],
   [kind |-> "json", data |-> GithubError],
   [kind |-> "failure"]}

InternalError(message) ==
  Json([error |-> "Internal Server Error", message |-> message])

\* the handler up to its first await, or up to its return
handlerStart(method, body) ==
  LET base == [method |-> method, body |-> body, sent |-> NoRequest,
               answer |-> NoAnswer, pc |-> "responded", statusCode |-> 0,
               response |-> NoBody]
  IN IF method = "OPTIONS"
       THEN [base EXCEPT !.statusCode = 204, !.response = NoBody]
     ELSE IF method # "POST"
       THEN [base EXCEPT !.statusCode = 405,
                         !.response = Json([error |-> "Method not allowed"])]
     ELSE IF ~parseBody(body).ok
       THEN [base EXCEPT !.statusCode = 500,
                         !.response = InternalError("Unexpected end of JSON input")]
     ELSE IF codeMissing(parseBody(body).value)
       THEN [base EXCEPT !.statusCode = 500,
                         !.response = InternalError("No code provided")]
     ELSE [base EXCEPT !.pc = "github",
                       !.sent = [method |-> "POST",
                                 client_id |-> ClientId,
                                 client_secret |-> ClientSecret,
                                 code |-> IF "code" \in DOMAIN parseBody(body).value
                                            THEN parseBody(body).value["code"]
                                            ELSE "undefined"]]

\* the handler from the answer of GitHub on
handlerFinish(rec, answer) ==
  IF answer.kind = "failure"
    THEN [rec EXCEPT !.pc = "responded", !.answer = answer, !.statusCode = 500,
                     !.response = InternalError("fetch failed")]
  ELSE IF "error" \in DOMAIN answer.data
    THEN [rec EXCEPT !.pc = "responded", !.answer = answer, !.statusCode = 500,
                     !.response = InternalError("GitHub error: " \o answer.data.error)]
  ELSE [rec EXCEPT !.pc = "responded", !.answer = answer, !.statusCode = 200,
                   !.response = Json([access_token |-> answer.data.access_token,
                                      token_type |-> answer.data.token_type,
                                      scope |-> answer.data.scope])]

\* AuthService.exchangeCodeForToken from the response on: the token, or a throw
clientOutcome(rec) ==
  IF rec.pc # "responded" THEN [pc |-> "awaiting"]
  ELSE IF ~(rec.statusCode \in 200..299) THEN [pc |-> "raised"]
  ELSE IF HasField(rec.response, "error") THEN [pc |-> "raised"]
  ELSE [pc |-> "returned", token |-> rec.response.json.access_token]

NoClient == [pc |-> "none"]

\* exchangeCodeForToken(code): the client posts the code to the proxy
ExchangeCodeForToken(code) ==
  /\ Len(proxy) < MaxInvocations
  /\ LET rec == handlerStart("POST", stringifyCode(code))
     IN proxy' = Append(proxy, [handler |-> rec, client |-> clientOutcome(rec)])
  /\ UNCHANGED <<contentVars, searchVars, pure, browser>>

\* any other request that reaches the endpoint
ProxyRequest(method, body) ==
  /\ Len(proxy) < MaxInvocations
  /\ proxy' = Append(proxy, [handler |-> handlerStart(method, body),
                             client |-> NoClient])
  /\ UNCHANGED <<contentVars, searchVars, pure, browser>>

\* GitHub answers the exchange of invocation i
GithubAnswer(i, answer) ==
  /\ i \in DOMAIN proxy
  /\ proxy[i].handler.pc = "github"
  /\ LET rec == handlerFinish(proxy[i].handler, answer)
     IN proxy' = [proxy EXCEPT ![i] =
                    [handler |-> rec,
                     client |-> IF proxy[i].client = NoClient THEN NoClient
                                ELSE clientOutcome(rec)]]
  /\ UNCHANGED <<contentVars, searchVars, pure, browser>>

InitProxy ==
  /\ Constructed
  /\ pure = NoPure

NextProxy ==
  \/ \E code \in Codes : ExchangeCodeForToken(code)
  \/ \E method \in Methods, body \in RequestBodies : ProxyRequest(method, body)
  \/ \E i \in 1..MaxInvocations, answer \in GithubAnswers : GithubAnswer(i, answer)

SpecProxy == InitProxy /\ [][NextProxy]_vars

\* the invocations that have responded
Responded == {i \in DOMAIN proxy : proxy[i].handler.pc = "responded"}

\* the exchange is attempted only for a POST whose JSON body carries a code
ExchangeOnlyWithCode ==
  \A i \in DOMAIN proxy :
    proxy[i].handler.sent # NoRequest
    => /\ proxy[i].handler.method = "POST"
       /\ proxy[i].handler.body = BodyCode

\* a 200 carries exactly the three token fields, and only after an answer of
\* GitHub without error
SuccessOnlyFromGithub ==
  \A i \in Responded :
    proxy[i].handler.statusCode = 200
    => /\ DOMAIN proxy[i].handler.response.json =
            {"access_token", "token_type", "scope"}
       /\ proxy[i].handler.answer.kind = "json"
       /\ "error" \notin DOMAIN proxy[i].handler.answer.data

\* the response of invocation i has an error field and no access token
ErrorBody(i) ==
  /\ HasField(proxy[i].handler.response, "error")
  /\ ~HasField(proxy[i].handler.response, "access_token")

\* no response holds the client secret
SecretNotDisclosed ==
  \A i \in Responded :
    "json" \in DOMAIN proxy[i].handler.response
    => \A field \in DOMAIN proxy[i].handler.response.json :
         proxy[i].handler.response.json[field] # ClientSecret

\* C19 as stated: the exchange is attempted only for a POST with a code, a
\* 200 carries exactly the token fields and only when GitHub returned no
\* error, every other response has an error field and no access token, and no
\* response holds the client secret.
C19_EveryOtherOutcomeIsAnError ==
  /\ ExchangeOnlyWithCode
  /\ SuccessOnlyFromGithub
  /\ \A i \in Responded : proxy[i].handler.statusCode # 200 => ErrorBody(i)
  /\ SecretNotDisclosed

\* C19: the exchange is attempted only for a POST with a code, a 200 carries
\* exactly the token fields and only when GitHub returned no error, an
\* OPTIONS request is answered 204 with an empty body, every other response
\* has an error field and no access token, and no response holds the client
\* secret.
C19_TokenExchange ==
  /\ ExchangeOnlyWithCode
  /\ SuccessOnlyFromGithub
  /\ \A i \in Responded :
       IF proxy[i].handler.method = "OPTIONS"
         THEN /\ proxy[i].handler.statusCode = 204
              /\ proxy[i].handler.response = NoBody
         ELSE proxy[i].handler.statusCode # 200 => ErrorBody(i)
  /\ SecretNotDisclosed

\* a preflight was answered and an exchange of the client gave it the token
C19_Witness ==
  \E i, j \in Responded :
    /\ proxy[i].handler.method = "OPTIONS"
    /\ proxy[i].handler.statusCode = 204
    /\ proxy[j].handler.statusCode = 200
    /\ proxy[j].handler.sent.client_secret = ClientSecret
    /\ proxy[j].client.pc = "returned"
    /\ proxy[j].client.token = GithubToken.access_token

(***************************************************************************)
(* The crawl when every remote call is answered                            *)
(***************************************************************************)
\* a request of the crawl is awaiting its response: the response actions
\* are enabled exactly then
CrawlAwaits == crawl.pending.method = "GET"

\* the answer to the request of the crawl arrives in this step
CrawlResponse ==
  \E outcome \in Outcomes :
    \/ CrawlListResponse(outcome) /\ UNCHANGED auxVars
    \/ CrawlFileResponse(outcome) /\ UNCHANGED auxVars

\* every request of the crawl eventually gets its response or its failure:
\* weak fairness of CrawlResponse, with its enabling condition written out
CrawlFairness == []<>(~CrawlAwaits) \/ []<><<CrawlResponse>>_vars

SpecCrawlFair == InitIndex /\ [][NextSearch]_vars /\ CrawlFairness

\* C21: an indexing session that has begun ends, isIndexing is false again,
\* whatever its fetches and listings did; and a performSearch call made after
\* the session has ended is not told to retry: it returns in its own step,
\* with the results of the index as it is when searchInFiles returns.
C21_IndexingTerminates ==
  /\ isIndexing ~> (~isIndexing /\ searchIndex # Null)
  /\ [][(CrawlDone /\ SearchBegins) =>
          LET search == searches'[Len(searches')]
          IN /\ search.pc = "returned"
             /\ search.notice # "retry"
             /\ search.notice = "none" =>
                  search.results = searchInFiles(searchIndex, search.query)
             /\ UNCHANGED <<searchIndex, indexedFiles, isIndexing>>]_vars

\* a crawl whose listing of the root succeeded and whose next listing failed
\* has ended, and a search made afterwards was answered from the index
C21_Witness ==
  /\ CrawlDone
  /\ \E i \in DOMAIN crawlLog :
       crawlLog[i].kind = "list" /\ crawlLog[i].outcome = "fail"
  /\ \E i \in DOMAIN crawlLog :
       crawlLog[i].kind = "list" /\ crawlLog[i].outcome = "ok"
  /\ Len(searches) = 2
  /\ searches[2].pc = "returned"
  /\ searches[2].notice = "none"

(***************************************************************************)
(* searchInFiles, applied to two queries over one index                    *)
(***************************************************************************)
QueryFooFoo == <<"f", "o", "o", " ", "F", "o", "o">>
QueryFooZed == <<"f", "o", "o", ",", " ", "z", "e", "d">>
QueryShort == <<"a", "b", " ", "a", "!">>
QueryPairs == {QueryFoo, QueryFooFoo, QueryZedFoo, QueryFooZed, QueryShort, QueryZed}
QueryDocs == {DocTitled, DocBody, DocHeading, DocC}

\* the index after indexFile of h.md and of t.md
indexOfTwo(contentH, contentT) ==
  LET docH == makeDoc(FileH, contentH)
      docT == makeDoc(FileT, contentT)
      first == postTokens(EmptyMap, tokenize(docH.content), docH).index
  IN postTokens(first, tokenize(docT.content), docT).index

InitQuery ==
  /\ Constructed
  /\ pure \in {[fn |-> "searchInFiles", index |-> indexOfTwo(contentH, contentT),
                queries |-> <<one, other>>, values |-> <<>>] :
                 contentH \in QueryDocs, contentT \in QueryDocs,
                 one \in QueryPairs, other \in QueryPairs}

\* searchInFiles answers the two queries from the index
SearchInFilesStep ==
  /\ pure.fn = "searchInFiles"
  /\ pure.values = <<>>
  /\ pure' = [pure EXCEPT !.values =
                <<searchInFiles(pure.index, pure.queries[1]),
                  searchInFiles(pure.index, pure.queries[2])>>]
  /\ UNCHANGED serviceVars

NextQuery == SearchInFilesStep

SpecQuery == InitQuery /\ [][NextQuery]_vars

\* C23: the result of searchInFiles depends only on the set of the tokens of
\* the query: two queries with the same set of tokens get the same result
\* (the same paths, scores and order), and a query with no token longer
\* than two characters gets the empty result.
C23_ResultDependsOnTokenSet ==
  (pure.fn = "searchInFiles" /\ pure.values # <<>>) =>
    /\ Range(tokenize(pure.queries[1])) = Range(tokenize(pure.queries[2]))
         => pure.values[1] = pure.values[2]
    /\ \A i \in 1..2 :
         tokenize(pure.queries[i]) = <<>> => pure.values[i] = <<>>

(***************************************************************************)
(* Completeness of the search over the files the crawl has read            *)
(***************************************************************************)
\* the files that the crawl handed to indexFile with a body that has tokens
FilesRead ==
  {crawlLog[i].path : i \in {j \in DOMAIN crawlLog :
                               /\ crawlLog[j].kind = "doc"
                               /\ BodyTokens(crawlLog[j].path) # {}}}

\* the search for the one word query returns path with a score of at least 1
ReturnedWithScore(path, query) ==
  /\ ~searchThrows(searchIndex, query)
  /\ \E j \in 1..Len(searchInFiles(searchIndex, query)) :
       /\ searchInFiles(searchIndex, query)[j].path = path
       /\ searchInFiles(searchIndex, query)[j].score >= 1

\* C25: after a crawl in which every remote call succeeded, every file that
\* indexFile was given is in indexedFiles, and for every token of its body,
\* 'constructor' included, it is in the posting list of the token and the
\* search for the token returns it with a score of at least 1.
C25_SearchCompleteness ==
  (CrawlDone /\ EveryCallSucceeded) =>
    \A path \in FilesRead :
      /\ path \in indexedFiles
      /\ \A word \in BodyTokens(path) :
           PostedUnder(path, word) /\ ReturnedWithScore(path, word)

(***************************************************************************)
(* A wiki that is searched while one of its pages is saved                 *)
(***************************************************************************)
PathH == <<"h">>
SavedDocs == {DocBody, DocHeading}

InitOnce ==
  /\ remote = [path \in IndexPaths |->
                 IF path = FileH THEN Str(DocC) ELSE Str(DocBody)]
  /\ cache = EmptyMap
  /\ now = 0
  /\ token = Token
  /\ config = DefaultConfig
  /\ calls = <<IdleCall>>
  /\ searchIndex = Null
  /\ isIndexing = FALSE
  /\ indexedFiles = {}
  /\ crawl = NoCrawl
  /\ crawlLog = <<>>
  /\ searches = <<>>
  /\ pure = NoPure
  /\ proxy = <<>>
  /\ browser = NoBrowser

NextOnce ==
  \/ NextSearch
  \/ \E c \in CallIds, content \in SavedDocs :
       SaveFileCall(c, PathH, content) /\ UNCHANGED <<searchVars, auxVars>>
  \/ \E c \in CallIds, outcome \in Outcomes :
       SaveFileShaResponse(c, outcome) /\ UNCHANGED <<searchVars, auxVars>>
  \/ \E c \in CallIds, outcome \in Outcomes :
       SaveFilePutResponse(c, outcome) /\ UNCHANGED <<searchVars, auxVars>>

SpecOnce == InitOnce /\ [][NextOnce]_vars

\* C27: once initSearchIndex has ended, with a complete crawl or with a
\* failed listing, it has ended for good: no step issues a request of the
\* crawl or adds to its log, searchIndex and indexedFiles stay as they are,
\* and a performSearch begun then has returned at the end of its step; so a
\* page saved afterwards is not searchable.
C27_IndexBuiltOnce ==
  [][CrawlDone =>
       /\ CrawlDone'
       /\ UNCHANGED <<searchIndex, indexedFiles, crawl, crawlLog>>
       /\ SearchBegins => searches'[Len(searches')].pc = "returned"]_vars

\* the crawl ended after a failed listing of the root; h.md was saved
\* afterwards with a body that holds 'foo', and a search for 'foo' made after
\* that found nothing
C27_Witness ==
  /\ CrawlDone
  /\ \E i \in DOMAIN crawlLog :
       crawlLog[i].kind = "list" /\ crawlLog[i].outcome = "fail"
  /\ indexedFiles = {}
  /\ calls[1].op = "saveFile" /\ calls[1].pc = "returned"
  /\ remote[FileH] = Str(DocBody)
  /\ \E i \in Answered :
       searches[i].query = QueryFoo /\ searches[i].results = <<>>

(***************************************************************************)
(* Reads and saves of one page, with the responses of the reads in flight  *)
(***************************************************************************)
\* the store answers the GET of a getFile: the response is on its way
GetFileAnswered(c, outcome) ==
  /\ calls[c].pc = "fetch"
  /\ LET path == calls[c].path
         status == getStatus(remote, path, outcome)
     IN calls' = Step(c, [calls[c] EXCEPT
                            !.pc = "receive",
                            !.request =
                               [method |-> "response", status |-> status,
                                body |-> IF status = 200 THEN remote[path]
                                         ELSE Null]])
  /\ UNCHANGED <<cache, now, remote, token, config>>

\* getFile from the arrival of the response on: 404 gives null, another
\* failure is rethrown, a success is cached and returned
GetFileReceived(c) ==
  /\ calls[c].pc = "receive"
  /\ LET path == calls[c].path
         response == calls[c].request
         todo == getFileOnStatus(response.status)
     IN IF todo = "throw"
          THEN /\ calls' = Step(c, [calls[c] EXCEPT !.pc = "raised",
                                         !.request = NoRequest,
                                         !.error = ApiError(response.status)])
               /\ cache' = cache
        ELSE IF todo = "null"
          THEN /\ calls' = Step(c, [calls[c] EXCEPT !.pc = "returned",
                                         !.request = NoRequest,
                                         !.result = Null])
               /\ cache' = cache
        ELSE /\ calls' = Step(c, [calls[c] EXCEPT !.pc = "returned",
                                       !.request = NoRequest,
                                       !.result = response.body])
             /\ cache' = addToCache(cache, now, path, response.body.s)
  /\ UNCHANGED <<now, remote, token, config>>

\* a page that does not exist yet is written and read by one user, who is
\* logged in; nobody else writes to the repository
InitReadWrite ==
  /\ cache = EmptyMap
  /\ now = 0
  /\ remote = [path \in SavePaths |-> Null]
  /\ token = Token
  /\ config = [DefaultConfig EXCEPT !.contentRepo = RepoName]
  /\ calls = [c \in 1..MaxReads |-> IdleCall]
  /\ searchIndex = Null
  /\ isIndexing = FALSE
  /\ indexedFiles = {}
  /\ crawl = NoCrawl
  /\ crawlLog = <<>>
  /\ searches = <<>>
  /\ pure = NoPure
  /\ proxy = <<>>
  /\ browser = NoBrowser

NextReadWrite ==
  \/ \E c \in CallIds, p \in SaveInputs :
       GetFileCall(c, p) /\ UNCHANGED <<searchVars, auxVars>>
  \/ \E c \in CallIds, outcome \in Outcomes :
       GetFileAnswered(c, outcome) /\ UNCHANGED <<searchVars, auxVars>>
  \/ \E c \in CallIds : GetFileReceived(c) /\ UNCHANGED <<searchVars, auxVars>>
  \/ \E c \in CallIds, p \in SaveInputs, content \in Contents :
       SaveFileCall(c, p, content) /\ UNCHANGED <<searchVars, auxVars>>
  \/ \E c \in CallIds, outcome \in Outcomes :
       SaveFileShaResponse(c, outcome) /\ UNCHANGED <<searchVars, auxVars>>
  \/ \E c \in CallIds, outcome \in Outcomes :
       SaveFilePutResponse(c, outcome) /\ UNCHANGED <<searchVars, auxVars>>
  \/ \E d \in cacheTTL..(cacheTTL + MaxDrift) :
       Tick(d) /\ UNCHANGED <<searchVars, auxVars>>

SpecReadWrite == InitReadWrite /\ [][NextReadWrite]_vars

\* call c is a getFile that resolves in this step
GetFileResolves(c) ==
  /\ calls[c].pc \in {"idle", "receive"} \/ Settled(calls[c])
  /\ calls'[c] # calls[c]
  /\ calls'[c].op = "getFile"
  /\ calls'[c].pc = "returned"

\* C26: once a saveFile of a page has resolved, every getFile of the page
\* that resolves before the next save of the page resolves returns the
\* saved content, also a getFile that was called before the save and
\* resolves after it.  (The page does not exist before the first save and
\* nobody else writes, so the store holds the content of the last save that
\* resolved.)
C26_ReadAfterWrite ==
  [][\A c \in CallIds :
       (GetFileResolves(c) /\ remote[calls'[c].path] # Null) =>
         calls'[c].result = remote[calls'[c].path]]_vars

(***************************************************************************)
(* WikiEditor: the editor page, its form, its draft in localStorage        *)
(***************************************************************************)
MaxSessions == 1   \* editor pages opened one after the other

PathB == <<"b">>
EditorPaths == {<<>>, PathA, PathB}
EditorFiles == {normalizePath(PathA), normalizePath(PathB)}
\* what another editor of the wiki saves
OtherSaves == {Str(<<"z">>)}
TypedBodies == {<<"y">>}
TypedTitles == {<<>>, <<"B">>}

\* the age after which loadDraft discards a draft: 24 hours
maxAge == 24 * 60 * 60 * 1000

\* the notices of showError and showSuccess
NoticeNone == "none"
NoticeTitle == "Please enter a title for the page"
NoticeLoadFailed == "Failed to load the page"
NoticeSaveFailed == "Failed to save the page"
NoticeSaved == "Page saved successfully"
NoticeDraft == "Draft saved"

\* the editor page right after the constructor of WikiEditor; item is the
\* value of localStorage under autosaveKey
newEditor(path, item, sessions) ==
  [page |-> "editor", currentPath |-> path, content |-> <<>>, value |-> <<>>,
   title |-> <<>>, isDirty |-> FALSE, pc |-> "ready", notice |-> NoticeNone,
   pagePath |-> <<>>, navigation |-> Null, loaded |-> Undefined,
   draft |-> item, sessions |-> sessions]

\* setupEventListeners: the title of an empty title field is set from the path
titleFromPath(b) ==
  IF b.currentPath # <<>> /\ b.title = <<>>
    THEN [b EXCEPT !.title =
            humanize(removeFirst(lastSegment(b.currentPath), DotMd))]
    ELSE b

\* WikiEditor.saveDraft: the draft replaces the item under autosaveKey
saveDraft(b, t) ==
  [b EXCEPT !.draft = [content |-> b.value, title |-> b.title,
                       path |-> b.currentPath, timestamp |-> t],
            !.notice = NoticeDraft]

\* WikiEditor.clearDraft: the item under autosaveKey is removed
clearDraft(b) == [b EXCEPT !.draft = Null]

\* WikiEditor.loadDraft; accept is the answer of the user to confirm()
loadDraft(b, t, accept) ==
  IF b.draft = Null THEN b
  ELSE IF b.draft.path # <<>> /\ b.draft.path # b.currentPath THEN b
  ELSE IF t - b.draft.timestamp > maxAge THEN clearDraft(b)
  ELSE IF accept
    THEN [b EXCEPT !.value = IF b.draft.content # <<>> THEN b.draft.content ELSE @,
                   !.content = IF b.draft.content # <<>> THEN b.draft.content ELSE @,
                   !.title = IF b.draft.title # <<>> THEN b.draft.title ELSE @]
  ELSE clearDraft(b)

\* loadPage from the return of getFile on; rec is the getFile call
loadPageSettled(b, rec, t, accept) ==
  IF rec.pc = "raised"
    THEN [b EXCEPT !.pc = "ready", !.notice = NoticeLoadFailed]
  ELSE IF Truthy(rec.result)
    THEN LET parsed == editorParseFrontMatter(rec.result.s)
             metadata == parsed.metadata
             hasTitle == /\ parsed.hasMetadata
                         /\ TitleKey \in DOMAIN metadata
                         /\ metadata[TitleKey].type = "string"
                         /\ Truthy(metadata[TitleKey])
         IN [clearDraft(b) EXCEPT
               !.content = parsed.content,
               !.value = parsed.content,
               !.title = IF hasTitle THEN metadata[TitleKey].s ELSE @,
               !.isDirty = FALSE,
               !.pc = "ready",
               !.loaded = rec.result]
  ELSE [loadDraft([b EXCEPT !.value = <<>>], t, accept) EXCEPT
          !.isDirty = FALSE, !.pc = "ready", !.loaded = rec.result]

\* the editor page is opened with ?path=path: the constructor and init, up
\* to the first await of loadPage.  The page has a ContentService of its own;
\* the requests of the page that is left are aborted.
OpenEditor(path, accept) ==
  /\ browser.sessions < MaxSessions
  /\ cache' = EmptyMap
  /\ LET fresh == newEditor(path, browser.draft, browser.sessions + 1)
     IN IF path # <<>>
          THEN IF getApiUrlThrows(config)
                 THEN /\ calls' = <<[IdleCall EXCEPT !.op = "getFile", !.pc = "raised",
                                       !.path = normalizePath(path),
                                       !.error = NotConfigured]>>
                      /\ browser' = loadPageSettled(titleFromPath(fresh),
                                                    calls'[1], now, accept)
                 ELSE /\ calls' = <<[IdleCall EXCEPT !.op = "getFile", !.pc = "fetch",
                                       !.path = normalizePath(path),
                                       !.request = [method |-> "GET",
                                                    url |-> normalizePath(path),
                                                    accept |-> "raw"]]>>
                      /\ browser' = [titleFromPath(fresh) EXCEPT !.pc = "loading"]
          ELSE /\ calls' = <<IdleCall>>
               /\ browser' = loadDraft(fresh, now, accept)
  /\ UNCHANGED <<now, remote, token, config, searchVars, pure, proxy>>

\* the getFile of loadPage is answered
LoadPageResponse(outcome, accept) ==
  /\ browser.page = "editor"
  /\ browser.pc = "loading"
  /\ GetFileResponse(1, outcome)
  /\ browser' = loadPageSettled(browser, calls'[1], now, accept)
  /\ UNCHANGED <<searchVars, pure, proxy>>

\* the input handler of the textarea
TypeContent(text) ==
  /\ browser.page = "editor"
  /\ browser' = [browser EXCEPT !.content = text, !.value = text, !.isDirty = TRUE]
  /\ UNCHANGED <<contentVars, searchVars, pure, proxy>>

\* the input handler of the title field
TypeTitle(text) ==
  /\ browser.page = "editor"
  /\ browser' = [browser EXCEPT !.title = text, !.isDirty = TRUE]
  /\ UNCHANGED <<contentVars, searchVars, pure, proxy>>

\* the click on the draft button, which showLoading disables during a load
\* or a save
SaveDraftClick ==
  /\ browser.page = "editor"
  /\ browser.pc = "ready"
  /\ browser' = saveDraft(browser, now)
  /\ UNCHANGED <<contentVars, searchVars, pure, proxy>>

\* the timer of startAutosave fires
Autosave ==
  /\ browser.page = "editor"
  /\ browser' = IF browser.isDirty /\ trim(browser.value) # <<>>
                  THEN saveDraft(browser, now)
                  ELSE browser
  /\ UNCHANGED <<contentVars, searchVars, pure, proxy>>

\* title.toLowerCase().replace(/[^\w\s-]/g, '').replace(/\s+/g, '-')
\* .replace(/-+/g, '-'), and '.md' appended when it is not the ending
RECURSIVE squeeze(_)
squeeze(s) ==
  IF Len(s) < 2 THEN s
  ELSE IF s[1] = "-" /\ s[2] = "-" THEN squeeze(Tail(s))
  ELSE <<s[1]>> \o squeeze(Tail(s))
pathFromTitle(title) ==
  LET kept == SelectSeq(toLowerCase(trim(title)),
                        LAMBDA ch : IsWordChar(ch) \/ IsSpace(ch) \/ ch = "-")
      dashed == squeeze([i \in 1..Len(kept) |->
                           IF IsSpace(kept[i]) THEN "-" ELSE kept[i]])
  IN IF endsWith(dashed, DotMd) THEN dashed ELSE dashed \o DotMd

\* the form of the editor, as generateFrontMatter reads it
editorForm(b) ==
  [title |-> b.title, description |-> <<>>, tags |-> <<>>,
   currentPath |-> b.currentPath # <<>>, author |-> <<>>]

\* a mutant of savePageSettled: the draft and the dirty flag are reset and
\* the navigation is scheduled however saveFile ended
savePageSettledAlways(b, rec) ==
  [clearDraft(b) EXCEPT !.isDirty = FALSE, !.notice = NoticeSaved,
                        !.navigation = Str(removeFirst(b.pagePath, DotMd)),
                        !.pc = "ready"]

\* savePage from the return of saveFile on; rec is the saveFile call
savePageSettled(b, rec) ==
  IF rec.pc = "returned"
    THEN [clearDraft(b) EXCEPT !.isDirty = FALSE, !.notice = NoticeSaved,
                               !.navigation = Str(removeFirst(b.pagePath, DotMd)),
                               !.pc = "ready"]
    ELSE [b EXCEPT !.notice = NoticeSaveFailed, !.pc = "ready"]

\* the click on the save button: savePage up to its first await
SavePageClick ==
  /\ browser.page = "editor"
  /\ browser.pc = "ready"
  /\ IF trim(browser.title) = <<>>
       THEN /\ browser' = [browser EXCEPT !.notice = NoticeTitle]
            /\ UNCHANGED contentVars
     ELSE IF ~Truthy(token)
       THEN /\ browser' = [browser EXCEPT !.notice = NoticeSaveFailed]
            /\ UNCHANGED contentVars
     ELSE LET pagePath == IF browser.currentPath # <<>> THEN browser.currentPath
                          ELSE pathFromTitle(browser.title)
              content == generateFrontMatter(editorForm(browser)) \o browser.content
          IN /\ SaveFileCall(1, pagePath, content)
             /\ browser' =
                  IF calls'[1].pc = "raised"
                    THEN savePageSettled([browser EXCEPT !.pagePath = pagePath],
                                         calls'[1])
                    ELSE [browser EXCEPT !.pagePath = pagePath, !.pc = "saving"]
  /\ UNCHANGED <<searchVars, pure, proxy>>

\* the read of the sha of the saveFile of savePage is answered
SavePageShaResponse(outcome) ==
  /\ browser.page = "editor"
  /\ browser.pc = "saving"
  /\ SaveFileShaResponse(1, outcome)
  /\ UNCHANGED <<searchVars, auxVars>>

\* the PUT of the saveFile of savePage is answered
SavePagePutResponse(outcome) ==
  /\ browser.page = "editor"
  /\ browser.pc = "saving"
  /\ SaveFilePutResponse(1, outcome)
  /\ browser' = savePageSettled(browser, calls'[1])
  /\ UNCHANGED <<searchVars, pure, proxy>>

\* what localStorage holds when the editor is opened: no draft, or the draft
\* of an earlier session: of page a, of a new page, or one of page a that is
\* older than a day
DraftOfA ==
  [content |-> <<"o">>, title |-> <<"A">>, path |-> PathA, timestamp |-> 0]
DraftOfNew ==
  [content |-> <<"n">>, title |-> <<"B">>, path |-> <<>>, timestamp |-> 0]
OldDraft == [DraftOfA EXCEPT !.timestamp = 0 - maxAge - 1]
StoredDrafts == {Null, DraftOfA, DraftOfNew, OldDraft}

InitEditor ==
  /\ cache = EmptyMap
  /\ now = 0
  /\ remote = [path \in EditorFiles |->
                 IF path = normalizePath(PathA) THEN Str(<<"x">>) ELSE Null]
  /\ token \in {Null, Token}
  /\ config = [DefaultConfig EXCEPT !.contentRepo = RepoName]
  /\ calls = <<IdleCall>>
  /\ searchIndex = Null
  /\ isIndexing = FALSE
  /\ indexedFiles = {}
  /\ crawl = NoCrawl
  /\ crawlLog = <<>>
  /\ searches = <<>>
  /\ pure = NoPure
  /\ proxy = <<>>
  /\ browser \in {[page |-> "none", draft |-> item, sessions |-> 0] :
                    item \in StoredDrafts}

NextEditor ==
  \/ \E path \in EditorPaths, accept \in BOOLEAN : OpenEditor(path, accept)
  \/ \E outcome \in Outcomes, accept \in BOOLEAN : LoadPageResponse(outcome, accept)
  \/ \E text \in TypedBodies : TypeContent(text)
  \/ \E text \in TypedTitles : TypeTitle(text)
  \/ SaveDraftClick
  \/ Autosave
  \/ SavePageClick
  \/ \E outcome \in Outcomes : SavePageShaResponse(outcome)
  \/ \E outcome \in Outcomes : SavePagePutResponse(outcome)
  \/ \E v \in OtherSaves :
       RemoteEdit(normalizePath(PathA), v) /\ UNCHANGED <<searchVars, auxVars>>

SpecEditor == InitEditor /\ [][NextEditor]_vars

(***************************************************************************)
(* Properties of the editor                                                *)
(***************************************************************************)
FileA == normalizePath(PathA)

\* the saveFile of savePage is between its two requests, or has just sent
\* the second
SamePage == browser'.page = browser.page /\ browser'.sessions = browser.sessions
ShaIsRead == SamePage /\ calls[1].pc = "readSha" /\ calls'[1].pc = "put"
PutIsAnswered == SamePage /\ calls[1].pc = "put" /\ calls'[1].pc # "put"

\* C22: the saveFile of savePage sends with its PUT the sha of the content
\* the store holds when saveFile itself reads it, or none, whatever content
\* loadPage had read; and a PUT whose sha is that of the content in the
\* store is not refused: unless the request fails, the content of the
\* editor replaces what the store holds, saveFile returns and the editor
\* shows the notice of success.
C22_LastWriteWins ==
  [][(browser.page = "editor" /\ browser.pc = "saving") =>
       LET path == calls[1].path
       IN /\ ShaIsRead =>
               \/ calls'[1].sha = Null
               \/ remote[path] # Null /\ calls'[1].sha = Sha(remote[path].s)
          /\ (/\ PutIsAnswered
              /\ remote[path] # Null
              /\ calls[1].sha = Sha(remote[path].s)) =>
               \/ /\ calls'[1].pc = "returned"
                  /\ remote'[path] = Str(calls[1].content)
                  /\ browser'.notice = NoticeSaved
               \/ /\ calls'[1].pc = "raised"
                  /\ calls'[1].error = ApiError(500)
                  /\ remote' = remote]_vars

\* the editor of page a had loaded 'x'; another editor saved 'z'; the
\* saveFile of savePage has read the sha of 'z' and sent it with its PUT
C22_Witness ==
  /\ browser.page = "editor"
  /\ browser.pc = "saving"
  /\ browser.loaded = Str(<<"x">>)
  /\ remote[FileA] = Str(<<"z">>)
  /\ calls[1].pc = "put"
  /\ calls[1].sha = Sha(<<"z">>)

\* a step of savePage: the click that starts saveFile, the click that ends
\* with an error notice, or an answer to a request of its saveFile
SavePageStep ==
  /\ browser.page = "editor"
  /\ browser'.page = "editor"
  /\ browser'.sessions = browser.sessions
  /\ \/ browser.pc = "ready" /\ browser'.pc = "saving"
     \/ browser.pc = "saving" /\ calls' # calls
     \/ /\ browser.pc = "ready"
        /\ browser'.pc = "ready"
        /\ browser'.notice \in {NoticeTitle, NoticeSaveFailed}
        /\ browser'.notice # browser.notice

\* C29: a step of savePage in which its saveFile returns resets isDirty,
\* removes the stored draft and schedules the navigation to the saved page;
\* every other step of savePage (the title is empty, the user is not
\* signed in, saveFile raises, a request is still under way) leaves isDirty,
\* the stored draft, the content of the editor and the scheduled navigation
\* as they are.
C29_SaveAllOrNothing ==
  [][SavePageStep =>
       IF calls'[1].op = "saveFile" /\ calls'[1].pc = "returned"
            /\ browser.pc = "saving"
         THEN /\ ~browser'.isDirty
              /\ browser'.draft = Null
              /\ browser'.navigation = Str(removeFirst(browser.pagePath, DotMd))
         ELSE /\ browser'.isDirty = browser.isDirty
              /\ browser'.draft = browser.draft
              /\ browser'.content = browser.content
              /\ browser'.value = browser.value
              /\ browser'.navigation = browser.navigation]_vars

\* the saveFile of savePage raised: the editor shows the failure, is still
\* dirty and its draft is still stored; no navigation is scheduled
C29_Witness ==
  /\ browser.page = "editor"
  /\ browser.pc = "ready"
  /\ calls[1].op = "saveFile"
  /\ calls[1].pc = "raised"
  /\ browser.notice = NoticeSaveFailed
  /\ browser.isDirty
  /\ browser.draft # Null
  /\ browser.navigation = Null

\* C30: the draft stored for a page is removed or replaced only in an
\* editor session of that page, and it is loaded into the editor only in
\* an editor session of that page.
C30_DraftIsolation ==
  [][(browser.draft # Null /\ browser'.page = "editor"
      /\ browser'.currentPath # browser.draft.path) =>
       /\ browser'.draft = browser.draft
       /\ browser'.value = browser.draft.content =>
            browser.page = "editor" /\ browser.value = browser.draft.content]_vars

(***************************************************************************)
(* App and NavigationService: the pages of the wiki in one browser tab     *)
(***************************************************************************)
MaxHistory == 6    \* entries of the session history of the tab

NothingShown == [kind |-> "none"]

\* window.history.pushState: the entries after the current one are dropped
pushState(b, path) ==
  [b EXCEPT !.history = Append(SubSeq(b.history, 1, b.pos), path),
            !.pos = b.pos + 1]

\* NavigationService.setActivePath(path), updateUrl left at its default
setActivePath(b, path) == pushState([b EXCEPT !.currentPath = path], path)

\* a mutant of shows: the result of a load is rendered only while its page
\* is the current one
showsIfCurrent(b, path, rec) ==
  IF path # b.currentPath THEN b.shown
  ELSE IF rec.pc = "raised" THEN [kind |-> "error", path |-> path]
  ELSE IF Truthy(rec.result)
    THEN [kind |-> "content", path |-> path, content |-> rec.result.s]
  ELSE [kind |-> "notFound", path |-> path]

\* what loadPage(path) puts into the content element once its getFile, the
\* call rec, has settled: renderContent, showPageNotFound or showError
shows(b, path, rec) ==
  IF rec.pc = "raised" THEN [kind |-> "error", path |-> path]
  ELSE IF Truthy(rec.result)
    THEN [kind |-> "content", path |-> path, content |-> rec.result.s]
  ELSE [kind |-> "notFound", path |-> path]

\* App.loadPage(path) up to the await of getFile, which is call c, or to
\* its end when getFile settles at once
loadPage(b, c, path) ==
  /\ GetFileCall(c, path)
  /\ LET active == setActivePath(b, path)
     IN browser' =
          IF Settled(calls'[c])
            THEN [active EXCEPT !.shown = shows(active, path, calls'[c])]
            ELSE [active EXCEPT !.loads[c] = path]

\* path.replace(/^\/+|\/+$/g, '')
trimSlashes(path) == StripTrailingSlashes(StripLeadingSlashes(path))

\* the tab opens the wiki at ?path=path: parseUrl, then init loads the page
OpenApp(c, path) ==
  /\ browser.page = "none"
  /\ loadPage([page |-> "app", currentPath |-> path, history |-> <<path>>,
               pos |-> 1, shown |-> NothingShown,
               loads |-> [b \in CallIds |-> <<>>], event |-> "init"],
              c, path)
  /\ UNCHANGED <<searchVars, pure, proxy>>

\* a click on a link of the wiki: NavigationService.navigateTo(href)
NavigateTo(c, href) ==
  /\ browser.page = "app"
  /\ Len(browser.history) + 2 <= MaxHistory
  /\ LET path == trimSlashes(href)
     IN loadPage([setActivePath(browser, path) EXCEPT !.event = "navigateTo"],
                 c, path)
  /\ UNCHANGED <<searchVars, pure, proxy>>

\* the user goes back one entry: the popstate handler of app.js
PopState(c) ==
  /\ browser.page = "app"
  /\ browser.pos > 1
  /\ browser.currentPath # <<>>
  /\ loadPage([browser EXCEPT !.pos = @ - 1, !.event = "popstate"],
              c, browser.currentPath)
  /\ UNCHANGED <<searchVars, pure, proxy>>

\* the getFile of a loadPage is answered and loadPage renders the result
LoadPageAnswer(c, outcome) ==
  /\ browser.page = "app"
  /\ GetFileResponse(c, outcome)
  /\ browser' = [browser EXCEPT
                   !.shown = shows(browser, browser.loads[c], calls'[c]),
                   !.loads[c] = <<>>,
                   !.event = "response"]
  /\ UNCHANGED <<searchVars, pure, proxy>>

InitApp ==
  /\ cache = EmptyMap
  /\ now = 0
  /\ remote \in [StorePaths -> {Null} \cup {Str(content) : content \in Contents}]
  /\ token = Null
  /\ config = [DefaultConfig EXCEPT !.contentRepo = RepoName]
  /\ calls = [c \in 1..MaxReads |-> IdleCall]
  /\ searchIndex = Null
  /\ isIndexing = FALSE
  /\ indexedFiles = {}
  /\ crawl = NoCrawl
  /\ crawlLog = <<>>
  /\ searches = <<>>
  /\ pure = NoPure
  /\ proxy = <<>>
  /\ browser = NoBrowser

NextApp ==
  \/ \E c \in CallIds, path \in PathInputs : OpenApp(c, trimSlashes(path))
  \/ \E c \in CallIds, href \in PathInputs : NavigateTo(c, href)
  \/ \E c \in CallIds : PopState(c)
  \/ \E c \in CallIds, outcome \in Outcomes : LoadPageAnswer(c, outcome)

SpecApp == InitApp /\ [][NextApp]_vars

\* the loads of the app that await their getFile
Loading == {c \in CallIds : calls[c].pc = "fetch"}

\* C24: a load is never cancelled: a step that starts a load leaves the
\* loads in flight as they are, and when the getFile of a load is answered
\* the content element shows the result of that load (its content, page not
\* found, or the error), whether or not its path is still the current path.
C24_LoadsNeverCancelled ==
  [][browser.page = "app" =>
       \A c \in Loading :
         IF calls'[c].pc = "fetch"
           THEN calls'[c] = calls[c] /\ browser'.loads[c] = browser.loads[c]
           ELSE /\ Settled(calls'[c])
                /\ browser'.shown.kind =
                     IF calls'[c].pc = "raised" THEN "error"
                     ELSE IF Truthy(calls'[c].result) THEN "content"
                     ELSE "notFound"
                /\ browser'.shown.path = browser.loads[c]
                /\ browser'.currentPath = browser.currentPath]_vars

\* the user went from a to b.md while a was loading; the load of b.md ended
\* first and the load of a last: the current path is b.md, page a is shown
C24_Witness ==
  /\ browser.page = "app"
  /\ Loading = {}
  /\ browser.currentPath = trimSlashes(PathSlashB)
  /\ browser.shown.kind = "content"
  /\ browser.shown.path = PathA

\* C28: one navigateTo adds exactly one entry to the session history; the
\* popstate handler adds none, and after it the current path is the path of
\* the entry the user went back to and that page is the one being loaded
\* or shown.
C28_HistoryNavigation ==
  [][browser.page = "app" =>
       /\ browser'.event = "navigateTo" /\ browser' # browser =>
            /\ browser'.pos = browser.pos + 1
            /\ Len(browser'.history) = browser.pos + 1
       /\ browser'.event = "popstate" /\ browser' # browser =>
            /\ browser'.pos = browser.pos - 1
            /\ browser'.history = browser.history
            /\ browser'.currentPath = browser.history[browser.pos - 1]]_vars
====
